---- MODULE Spec2Model ----
(***************************************************************************)
(* Model of torch/_inductor/codegen/cpp_micro_gemm.py: the registry of     *)
(* micro-GEMM configurations, its population at module load, and the       *)
(* selector create_micro_gemm.                                             *)
(*                                                                         *)
(* Encodings: a torch.dtype is the string of its name ("half" is           *)
(* torch.half == torch.float16); Python None is the string "None"; a       *)
(* GemmBlocking is the tuple <<block_m, block_n, block_k>>; a class is the *)
(* string of its name; the ordered dict micro_gemm_configs is the sequence *)
(* of its items in insertion order.  A symbolic m is m_sym = TRUE, and its *)
(* size hint is the per-call value hint (NoHint when none is known).  An m *)
(* that is neither an int nor a sympy expression has m_is_int = FALSE.  n  *)
(* and k are each an int ("int"), a sympy number ("number", is_number is   *)
(* True) or a sympy expression with free symbols ("symbol").               *)
(***************************************************************************)
EXTENDS Integers, Sequences, FiniteSets, TLC

VARIABLES micro_gemm_configs, vec_isa, avx512_fp16, amx_fp16, call, result, prev,
          frame, gen, reg, use, kernel, amx, dequant, vec

vars == <<micro_gemm_configs, vec_isa, avx512_fp16, amx_fp16, call, result, prev,
          frame, gen, reg, use, kernel, amx, dequant, vec>>

(***************************************************************************)
(* Bounds of the explored inputs.                                          *)
(***************************************************************************)
MaxTilesM == 3
MaxTilesN == 3
MaxThreads == 3

NoHint == -1

\* Shapes: m around the FP16 limit of 4 and at multiples of the AMX tile
\* height, n at multiples of 16, k odd, even and a multiple of 32; and the
\* 256 x 256 x 256 problem.
MVals == {4, 5} \cup {16 * i : i \in 1 .. MaxTilesM}
NVals == {16 * i : i \in 1 .. MaxTilesN}
KVals == {1, 2, 32}
Shapes == (MVals \X NVals \X KVals) \cup {<<256, 256, 256>>}
AlphaVals == {1, 2}
NumThreadsVals == {1, MaxThreads}
Names == {"k0"}

\* <<input_dtype, input2_dtype>> of a request, and the optional dtypes.
InputPairs ==
    {<<"bfloat16", "bfloat16">>, <<"bfloat16", "int8">>, <<"half", "half">>,
     <<"uint8", "int8">>, <<"float64", "float64">>}
OutputDtypes == {"None", "float", "int32"}
ComputeDtypes == {"None", "float"}
HostISAs == {"InvalidVecISA", "VecAVX2", "VecAVX512", "VecAMX"}

\* The requests that vary the ambient answers: a symbolic or concrete m,
\* num_threads given or left to parallel_num_threads().
AmbientShapes == {4, 16} \X {32, 48} \X {32}
AmbientPairs == {<<"bfloat16", "bfloat16">>, <<"bfloat16", "int8">>}
HintVals == {NoHint, 16}
ParallelVals == {1, MaxThreads}
AmbientNumThreadsVals == {-1, MaxThreads}
AmbientOutputDtypes == {"None", "float"}
AmbientComputeDtypes == {"None", "float"}

\* The requests that probe the eligibility predicates: m on both sides of
\* the FP16 limit and of the AMX tile height, n a multiple of 32 or not, k
\* odd, even and a multiple of 4, and float16 among the passed output dtypes.
EligibilityShapes == {4, 5, 32} \X {16, 32} \X {1, 2, 32}
EligibilityOutputDtypes == {"None", "float", "int32", "half"}

\* The kinds of shape argument: m as an int, as a sympy expression with or
\* without a hint, or as something else; n and k by kind.
AnyMArgs ==
    {[m_sym |-> FALSE, m_is_int |-> TRUE, m |-> m, hint |-> NoHint] : m \in {4, 32}}
    \cup {[m_sym |-> TRUE, m_is_int |-> FALSE, m |-> 0, hint |-> h] : h \in HintVals}
    \cup {[m_sym |-> FALSE, m_is_int |-> FALSE, m |-> 0, hint |-> NoHint]}
ShapeKinds == {"int", "number", "symbol"}

\* The arguments generate_gemm_config is applied to, and the classes a
\* decoration is applied to: the four of the module and one more.
GenISAChecks == {<<"VecAVX512", "None">>, <<"VecAMX", "check_amx_extra">>}
GenBlockingLists ==
    {<< >>, << <<8, 32, 1>> >>, << <<32, 32, 32>>, <<16, 48, 32>> >>,
     << <<16, 48, 32>>, <<32, 32, 32>> >>}
GenInputDtypes == {"float", "bfloat16"}
GenInput2Dtypes == {"None", "int8"}
GenOutputDtypes == {"None", "float"}
GenComputeDtypes == {"None", "int32"}
RegisterClasses ==
    {"CppMicroGemmFP32Vec", "CppFP16MicroGemm", "CppMicroGemmAMX",
     "CppMicroBrgemm", "CppMicroGemmUser"}

\* The runs of the reference kernel: dimensions, row padding of the leading
\* dimensions, and the entries of A, B and C, small enough for every sum to
\* be exact in each compute_t and output_t the kernel is instantiated with.
DimVals == {1, 2}
LdPadVals == {0, 1}
AEntryVals == {1, 2}
BEntryVals == {-1, 3}
CEntryVals == {0, 5}

\* Runs of the emitted AMX entry function: the number of M-blocks, N-blocks
\* and K-blocks of the problem sizes it is run on.
MaxAMXMBlocks == 2
MaxAMXNBlocks == 2
MaxAMXKBlocks == 2

\* Rows left over after whole M-blocks (only those below block_m are used).
AMXRowRemainders == {0, 1, 16, 17, 33}

\* K left over after whole K-blocks.
AMXKRemainders == {0, 2}

\* Runs of load_dequantized_B: the number of rows K of the slab.
MaxDequantK == 6

\* Runs of the emitted vector entry function: the number of M-blocks and
\* N-blocks of the problem sizes it is run on.
MaxVecMBlocks == 2
MaxVecNBlocks == 2

\* Register blockings and dtypes CppMicroGemmAMX is constructed with directly.
DirectBlockings == {16, 24, 32} \X {16, 24} \X {32, 64}

DirectDtypes ==
    {<<"bfloat16", "bfloat16", "float", "float">>,
     <<"bfloat16", "int8", "float", "float">>,
     <<"uint8", "int8", "int32", "int32">>}

(***************************************************************************)
(* torch.dtype.itemsize                                                    *)
(***************************************************************************)
itemsize(dtype) ==
    CASE dtype = "float" -> 4
      [] dtype = "bfloat16" -> 2
      [] dtype = "half" -> 2
      [] dtype = "int8" -> 1
      [] dtype = "uint8" -> 1
      [] dtype = "int32" -> 4
      [] dtype = "float64" -> 8

(***************************************************************************)
(* The class order of the vector ISAs: issubclass(host, required).         *)
(***************************************************************************)
isa_rank(cls) ==
    CASE cls = "InvalidVecISA" -> 0
      [] cls = "VecAVX2" -> 1
      [] cls = "VecAVX512" -> 2
      [] cls = "VecAMX" -> 3

issubclass(host_cls, required_cls) == isa_rank(host_cls) >= isa_rank(required_cls)

(***************************************************************************)
(* CppMicroGemmConfig and generate_gemm_config                             *)
(***************************************************************************)
CppMicroGemmConfig(input_dtype, input2_dtype, output_dtype, compute_dtype, vec_isa_cls, register_blocking, extra_check) ==
    [input_dtype |-> input_dtype, input2_dtype |-> input2_dtype,
     output_dtype |-> output_dtype, compute_dtype |-> compute_dtype,
     vec_isa_cls |-> vec_isa_cls, register_blocking |-> register_blocking,
     extra_check |-> extra_check]

\* Variant: compute_dtype defaults to input_dtype instead of output_dtype.
generate_gemm_config_compute_from_input(vec_isa_cls, register_blockings, input_dtype, input2_dtype, output_dtype, compute_dtype, extra_check) ==
    LET out == IF output_dtype = "None" THEN input_dtype ELSE output_dtype
        comp == IF compute_dtype = "None" THEN input_dtype ELSE compute_dtype
        in2 == IF input2_dtype = "None" THEN input_dtype ELSE input2_dtype
    IN [i \in 1 .. Len(register_blockings) |->
            CppMicroGemmConfig(input_dtype, in2, out, comp, vec_isa_cls,
                               register_blockings[i], extra_check)]

\* Variant: the blockings are walked from the last to the first.
generate_gemm_config_reversed(vec_isa_cls, register_blockings, input_dtype, input2_dtype, output_dtype, compute_dtype, extra_check) ==
    LET out == IF output_dtype = "None" THEN input_dtype ELSE output_dtype
        comp == IF compute_dtype = "None" THEN out ELSE compute_dtype
        in2 == IF input2_dtype = "None" THEN input_dtype ELSE input2_dtype
        count == Len(register_blockings)
    IN [i \in 1 .. count |->
            CppMicroGemmConfig(input_dtype, in2, out, comp, vec_isa_cls,
                               register_blockings[count + 1 - i], extra_check)]

generate_gemm_config(vec_isa_cls, register_blockings, input_dtype, input2_dtype, output_dtype, compute_dtype, extra_check) ==
    LET out == IF output_dtype = "None" THEN input_dtype ELSE output_dtype
        comp == IF compute_dtype = "None" THEN out ELSE compute_dtype
        in2 == IF input2_dtype = "None" THEN input_dtype ELSE input2_dtype
    IN [i \in 1 .. Len(register_blockings) |->
            CppMicroGemmConfig(input_dtype, in2, out, comp, vec_isa_cls,
                               register_blockings[i], extra_check)]

(***************************************************************************)
(* The four @register_micro_gemm decorations, in module order.             *)
(***************************************************************************)
AVX512Blockings == << <<8, 48, 1>>, <<8, 32, 1>>, <<16, 16, 1>> >>
AVX2Blockings == << <<4, 24, 1>>, <<4, 16, 1>>, <<8, 8, 1>> >>
AMXBlockings == << <<32, 32, 32>>, <<48, 16, 32>>, <<16, 48, 32>> >>
\* Variant: the int8 blockings written with the bfloat16 block_k.
AMXInt8Blockings_block_k_32 == << <<32, 32, 32>>, <<48, 16, 32>> >>

AMXInt8Blockings == << <<32, 32, 64>>, <<48, 16, 64>> >>

FP32VecConfigs ==
    generate_gemm_config("VecAVX512", AVX512Blockings, "float", "None", "None", "None", "None")
    \o generate_gemm_config("VecAVX512", AVX512Blockings, "bfloat16", "None", "float", "None", "None")
    \o generate_gemm_config("VecAVX512", AVX512Blockings, "half", "None", "float", "None", "None")
    \o generate_gemm_config("VecAVX512", AVX512Blockings, "bfloat16", "int8", "float", "float", "None")
    \o generate_gemm_config("VecAVX2", AVX2Blockings, "float", "None", "None", "None", "None")
    \o generate_gemm_config("VecAVX2", AVX2Blockings, "bfloat16", "None", "float", "None", "None")
    \o generate_gemm_config("VecAVX2", AVX2Blockings, "half", "None", "float", "None", "None")
    \o generate_gemm_config("VecAVX2", AVX2Blockings, "bfloat16", "int8", "float", "float", "None")

FP16Configs ==
    generate_gemm_config("VecAVX512", << <<8, 64, 1>>, <<8, 32, 1>> >>,
                         "bfloat16", "int8", "half", "half", "check_fp16_extra")

AMXConfigs ==
    generate_gemm_config("VecAMX", AMXBlockings, "bfloat16", "int8", "float", "float", "check_amx_extra")
    \o generate_gemm_config("VecAMX", AMXBlockings, "bfloat16", "None", "float", "None", "check_amx_extra")
    \o generate_gemm_config("VecAMX", AMXInt8Blockings,
                            "uint8", "int8", "int32", "int32", "check_amx_extra")

\* Variant: the Brgemm class is registered for bfloat16 input.
BrgemmConfigs_bfloat16 ==
    generate_gemm_config("VecAMX", AMXBlockings, "bfloat16", "None", "float", "None", "check_brgemm_extra")

BrgemmConfigs ==
    generate_gemm_config("VecAMX", AMXBlockings, "half", "None", "float", "None", "check_brgemm_extra")

Decorations ==
    << [cls |-> "CppMicroGemmFP32Vec", configs |-> FP32VecConfigs],
       [cls |-> "CppFP16MicroGemm", configs |-> FP16Configs],
       [cls |-> "CppMicroGemmAMX", configs |-> AMXConfigs],
       [cls |-> "CppMicroBrgemm", configs |-> BrgemmConfigs] >>

(***************************************************************************)
(* register_micro_gemm: the two assertions of inner(cls), then the insert  *)
(***************************************************************************)
registered_classes(registry) == {registry[i].cls : i \in 1 .. Len(registry)}

\* Variant: the assertion on len(configs) is missing.
register_micro_gemm_ok_allows_empty(registry, cls, configs) ==
    cls \notin registered_classes(registry)

register_micro_gemm_ok(registry, cls, configs) ==
    /\ cls \notin registered_classes(registry)
    /\ Len(configs) > 0

register_micro_gemm(registry, cls, configs) ==
    Append(registry, [cls |-> cls, configs |-> configs])

(***************************************************************************)
(* create_micro_gemm, step by step.  A call record c carries the arguments *)
(* and the two ambient answers read during the call: parallel is           *)
(* parallel_num_threads() and hint is the size hint of a symbolic m.       *)
(***************************************************************************)
size_hint(m_sym, m, hint) ==
    IF m_sym THEN (IF hint = NoHint THEN 1 ELSE hint) ELSE m

default_output_dtype(input_dtype, output_dtype) ==
    IF output_dtype = "None" THEN input_dtype ELSE output_dtype

default_compute_dtype(output_dtype, compute_dtype) ==
    IF compute_dtype = "None" THEN output_dtype ELSE compute_dtype

\* Variant: the ambient thread count replaces a given num_threads too.
default_num_threads_always_ambient(num_threads, parallel) == parallel

default_num_threads(num_threads, parallel) ==
    IF num_threads < 0 THEN parallel ELSE num_threads

\* has_free_symbols((n,)) where it is evaluated: n passed the assertion
\* that it is an int or a sympy number, and neither has free symbols.
has_free_symbols_n == FALSE

\* Variant: the assertion on k is missing.
n_k_asserts_hold_n_only(c) == c.n_kind \in {"int", "number"}

\* The assertions on n and k, then on m once a sympy m is replaced by its hint.
n_k_asserts_hold(c) ==
    /\ c.n_kind \in {"int", "number"}
    /\ c.k_kind \in {"int", "number"}

m_assert_holds(c) == c.m_sym \/ c.m_is_int

shape_asserts_hold(c) == n_k_asserts_hold(c) /\ m_assert_holds(c)

\* The ambient functions a call reaches, in order, up to the start of the
\* loop over the registry.  The and-chain of the float16 test reaches the
\* feature probe only past m <= 4 and the two dtype tests.
prologue_calls(c) ==
    IF ~n_k_asserts_hold(c) THEN << >>
    ELSE (IF c.m_sym THEN <<"size_hint">> ELSE << >>)
         \o (IF ~m_assert_holds(c) THEN << >>
             ELSE (IF c.num_threads < 0 THEN <<"parallel_num_threads">> ELSE << >>)
                  \o (IF /\ size_hint(c.m_sym, c.m, c.hint) <= 4
                          /\ c.input_dtype = "bfloat16"
                          /\ c.input2_dtype = "int8"
                       THEN <<"_is_avx512_fp16_supported">> ELSE << >>)
                  \o <<"pick_vec_isa", "micro_gemm_configs.items">>)

NoFrame ==
    [raised |-> FALSE, m |-> 0, output_dtype |-> "None", compute_dtype |-> "None",
     num_threads |-> 0, calls |-> << >>]

\* Variant: compute_dtype defaults to input_dtype.
prologue_compute_from_input(c) ==
    IF ~shape_asserts_hold(c)
    THEN [NoFrame EXCEPT !.raised = TRUE, !.calls = prologue_calls(c)]
    ELSE [raised |-> FALSE,
          m |-> size_hint(c.m_sym, c.m, c.hint),
          output_dtype |-> default_output_dtype(c.input_dtype, c.output_dtype),
          compute_dtype |-> default_compute_dtype(c.input_dtype, c.compute_dtype),
          num_threads |-> default_num_threads(c.num_threads, c.parallel),
          calls |-> prologue_calls(c)]

\* The locals of a call once the assertions and the three defaults have run,
\* before the float16 test; raised when an assertion stopped the call.
prologue(c) ==
    IF ~shape_asserts_hold(c)
    THEN [NoFrame EXCEPT !.raised = TRUE, !.calls = prologue_calls(c)]
    ELSE LET out == default_output_dtype(c.input_dtype, c.output_dtype)
         IN [raised |-> FALSE,
             m |-> size_hint(c.m_sym, c.m, c.hint),
             output_dtype |-> out,
             compute_dtype |-> default_compute_dtype(out, c.compute_dtype),
             num_threads |-> default_num_threads(c.num_threads, c.parallel),
             calls |-> prologue_calls(c)]

\* Variant: m < 4 in place of m <= 4.
use_fp16_compute_m_below_4(m, n, input_dtype, input2_dtype) ==
    /\ m < 4
    /\ input_dtype = "bfloat16"
    /\ input2_dtype = "int8"
    /\ avx512_fp16
    /\ ~has_free_symbols_n
    /\ n % 32 = 0

use_fp16_compute(m, n, input_dtype, input2_dtype) ==
    /\ m <= 4
    /\ input_dtype = "bfloat16"
    /\ input2_dtype = "int8"
    /\ avx512_fp16
    /\ ~has_free_symbols_n
    /\ n % 32 = 0

\* The request as it stands at the start of the selection loop.
normalized(c) ==
    LET m == size_hint(c.m_sym, c.m, c.hint)
        out == default_output_dtype(c.input_dtype, c.output_dtype)
        comp == default_compute_dtype(out, c.compute_dtype)
        fp16 == use_fp16_compute(m, c.n, c.input_dtype, c.input2_dtype)
    IN [m |-> m, n |-> c.n, k |-> c.k,
        input_dtype |-> c.input_dtype, input2_dtype |-> c.input2_dtype,
        output_dtype |-> IF fp16 THEN "half" ELSE out,
        compute_dtype |-> IF fp16 THEN "half" ELSE comp,
        alpha |-> c.alpha,
        num_threads |-> default_num_threads(c.num_threads, c.parallel)]

\* Variant: the test of n is missing.
check_fp16_extra_any_n(config, m, n, k, alpha, num_threads) ==
    avx512_fp16 /\ m <= 4

check_fp16_extra(config, m, n, k, alpha, num_threads) ==
    avx512_fp16 /\ m <= 4 /\ n % 32 = 0

\* Variant: vnni_size is 2 whatever the input dtype.
check_amx_extra_vnni_size_2(config, m, n, k, alpha, num_threads) ==
    k % 2 = 0 /\ alpha = 1

check_amx_extra(config, m, n, k, alpha, num_threads) ==
    LET vnni_size == IF config.input_dtype = "uint8" THEN 4 ELSE 2
    IN k % vnni_size = 0 /\ alpha = 1

check_brgemm_extra_assert(config) ==
    config.input_dtype = "half" /\ config.output_dtype = "float"

\* Variant: the AMX-FP16 probe is missing.
check_brgemm_extra_no_probe(config, m, n, k, alpha, num_threads) ==
    k % 2 = 0 /\ alpha = 1

check_brgemm_extra(config, m, n, k, alpha, num_threads) ==
    LET vnni_size == 2
    IN amx_fp16 /\ k % vnni_size = 0 /\ alpha = 1

extra_check(config, m, n, k, alpha, num_threads) ==
    CASE config.extra_check = "check_fp16_extra" ->
            check_fp16_extra(config, m, n, k, alpha, num_threads)
      [] config.extra_check = "check_amx_extra" ->
            check_amx_extra(config, m, n, k, alpha, num_threads)
      [] config.extra_check = "check_brgemm_extra" ->
            check_brgemm_extra(config, m, n, k, alpha, num_threads)

\* Variant: the arguments of issubclass swapped.
isa_satisfied_swapped(config) == issubclass(config.vec_isa_cls, vec_isa)

isa_satisfied(config) == issubclass(vec_isa, config.vec_isa_cls)

dtypes_match(config, r) ==
    /\ config.input_dtype = r.input_dtype
    /\ config.compute_dtype = r.compute_dtype
    /\ config.input2_dtype = r.input2_dtype
    /\ config.output_dtype = r.output_dtype

extra_check_fails(config, r) ==
    /\ config.extra_check # "None"
    /\ ~extra_check(config, r.m, r.n, r.k, r.alpha, r.num_threads)

\* Variant: m compared with block_n instead of block_m.
amx_woq_small_m_block_n(config, r) ==
    /\ config.vec_isa_cls = "VecAMX"
    /\ r.m < config.register_blocking[2]
    /\ r.input_dtype = "bfloat16"
    /\ r.input2_dtype = "int8"

amx_woq_small_m(config, r) ==
    /\ config.vec_isa_cls = "VecAMX"
    /\ r.m < config.register_blocking[1]
    /\ r.input_dtype = "bfloat16"
    /\ r.input2_dtype = "int8"

\* A configuration reaches matched_configs: none of the loop's continue
\* statements is taken.
survives(config, r) ==
    /\ isa_satisfied(config)
    /\ dtypes_match(config, r)
    /\ ~extra_check_fails(config, r)
    /\ ~amx_woq_small_m(config, r)

\* Variant: extra_check is called before the dtypes are compared.
extra_check_calls_before_dtype_match(visited, r) ==
    LET Reached(p) == isa_satisfied(p.config) /\ p.config.extra_check # "None"
    IN SelectSeq(visited, Reached)

\* The (cls, config) pairs, in loop order, for which the loop calls
\* config.extra_check: it passes the continue of the ISA check, then the if
\* on the four dtypes, and evaluates "config.extra_check is not None and not
\* config.extra_check(...)" left to right.
extra_check_calls(visited, r) ==
    LET Reached(p) ==
            /\ isa_satisfied(p.config)
            /\ dtypes_match(p.config, r)
            /\ p.config.extra_check # "None"
    IN SelectSeq(visited, Reached)

\* The loop evaluates an extra_check whose assertion fails.
extra_check_raises(config, r) ==
    /\ isa_satisfied(config)
    /\ dtypes_match(config, r)
    /\ config.extra_check = "check_brgemm_extra"
    /\ ~check_brgemm_extra_assert(config)

\* Variant: the increment for AMX is missing.
isa_score_never_amx(config) == 0

isa_score(config) == IF config.vec_isa_cls = "VecAMX" THEN 1 ELSE 0

dividable_score(config, r) ==
    (IF r.m % config.register_blocking[1] = 0 THEN 1 ELSE 0)
    + (IF r.n % config.register_blocking[2] = 0 THEN 1 ELSE 0)
    + (IF r.k % config.register_blocking[3] = 0 THEN 1 ELSE 0)

\* Variant: > in place of >= in both comparisons with num_threads.
occupancy_score_strict(config, r) ==
    LET block_m == config.register_blocking[1]
        block_n == config.register_blocking[2]
        n_blocks == (r.n + block_n - 1) \div block_n
        total_mxn_blocks == n_blocks * ((r.m + block_m - 1) \div block_m)
    IN (IF n_blocks > r.num_threads THEN 1 ELSE 0)
       + (IF total_mxn_blocks > r.num_threads THEN 1 ELSE 0)

occupancy_score(config, r) ==
    LET block_m == config.register_blocking[1]
        block_n == config.register_blocking[2]
        n_blocks == (r.n + block_n - 1) \div block_n
        total_mxn_blocks == n_blocks * ((r.m + block_m - 1) \div block_m)
    IN (IF n_blocks >= r.num_threads THEN 1 ELSE 0)
       + (IF total_mxn_blocks >= r.num_threads THEN 1 ELSE 0)

register_bytes(config) ==
    LET block_m == config.register_blocking[1]
        block_n == config.register_blocking[2]
        block_k == config.register_blocking[3]
    IN block_m * block_n * itemsize(config.compute_dtype)
       + (block_m * block_k + block_k * block_n) * itemsize(config.input_dtype)

score(config, r) ==
    <<isa_score(config), dividable_score(config, r),
      occupancy_score(config, r), register_bytes(config)>>

\* micro_gemm_configs.items() with the inner lists unrolled: the order in
\* which the two nested for loops visit (cls, config).
RECURSIVE items(_)
items(registry) ==
    IF registry = << >> THEN << >>
    ELSE LET e == Head(registry)
         IN [i \in 1 .. Len(e.configs) |-> [cls |-> e.cls, config |-> e.configs[i]]]
            \o items(Tail(registry))

\* matched_configs after the loop over the visited pairs.
matched_configs(visited, r) ==
    LET Keep(p) == survives(p.config, r)
        kept == SelectSeq(visited, Keep)
    IN [i \in 1 .. Len(kept) |->
            [score |-> score(kept[i].config, r), cls |-> kept[i].cls,
             config |-> kept[i].config]]

\* Python's order on tuples of equal length: a > b.
RECURSIVE tuple_gt(_, _)
tuple_gt(a, b) ==
    IF a = << >> THEN FALSE
    ELSE IF Head(a) # Head(b) THEN Head(a) > Head(b)
    ELSE tuple_gt(Tail(a), Tail(b))

\* Python's max(seq, key = score): the first element no later one exceeds.
\* Variant: a later element of equal score replaces the current best.
RECURSIVE max_from_last(_, _)
max_from_last(best, rest) ==
    IF rest = << >> THEN best
    ELSE IF ~tuple_gt(best.score, Head(rest).score) THEN max_from_last(Head(rest), Tail(rest))
    ELSE max_from_last(best, Tail(rest))

RECURSIVE max_from(_, _)
max_from(best, rest) ==
    IF rest = << >> THEN best
    ELSE IF tuple_gt(Head(rest).score, best.score) THEN max_from(Head(rest), Tail(rest))
    ELSE max_from(best, Tail(rest))

max_by_score(matched) == max_from(Head(matched), Tail(matched))

variant(cls, name, input_dtype, input2_dtype, output_dtype, compute_dtype, register_blocking, alpha) ==
    [kind |-> "variant", cls |-> cls, name |-> name,
     input_dtype |-> input_dtype, input2_dtype |-> input2_dtype,
     output_dtype |-> output_dtype, compute_dtype |-> compute_dtype,
     register_blocking |-> register_blocking, alpha |-> alpha]

create_from_config(name, alpha, cls, config) ==
    variant(cls, name, config.input_dtype, config.input2_dtype,
            config.output_dtype, config.compute_dtype,
            config.register_blocking, alpha)

CppMicroGemmRef(name, input_dtype, input2_dtype, output_dtype, compute_dtype, alpha) ==
    variant("CppMicroGemmRef", name, input_dtype, input2_dtype, output_dtype,
            compute_dtype, <<1, 1, 1>>, alpha)

no_variant(kind) ==
    [kind |-> kind, cls |-> "None", name |-> "",
     input_dtype |-> "None", input2_dtype |-> "None",
     output_dtype |-> "None", compute_dtype |-> "None",
     register_blocking |-> <<0, 0, 0>>, alpha |-> 0]

\* Variant: the reference kernel is returned whatever use_ref says.
no_match_result_always_ref(c, r) ==
    CppMicroGemmRef(c.name, r.input_dtype, r.input2_dtype,
                    r.output_dtype, r.compute_dtype, r.alpha)

\* len(matched_configs) == 0
no_match_result(c, r) ==
    IF c.use_ref
    THEN CppMicroGemmRef(c.name, r.input_dtype, r.input2_dtype,
                         r.output_dtype, r.compute_dtype, r.alpha)
    ELSE no_variant("None")

create_micro_gemm(registry, c) ==
    LET r == normalized(c)
        all == items(registry)
        matched == matched_configs(all, r)
    IN IF ~shape_asserts_hold(c)
       THEN no_variant("AssertionError")
       ELSE IF \E i \in 1 .. Len(all) : extra_check_raises(all[i].config, r)
       THEN no_variant("AssertionError")
       ELSE IF Len(matched) = 0
       THEN no_match_result(c, r)
       ELSE LET best == max_by_score(matched)
            IN create_from_config(c.name, r.alpha, best.cls, best.config)

(***************************************************************************)
(* The methods of a returned variant.                                      *)
(***************************************************************************)
\* CppMicroBrgemm.get_b_layout asserts before it answers.
get_b_layout_assert(v) == v.input_dtype = "half" /\ amx_fp16

\* Variant: the AMX override answers VNNI2 for every input dtype.
get_b_layout_amx_always_vnni2(v) ==
    CASE v.cls = "CppMicroGemmAMX" -> "VNNI2"
      [] v.cls = "CppMicroBrgemm" ->
            (IF get_b_layout_assert(v) THEN "VNNI2" ELSE "AssertionError")
      [] OTHER -> "NORMAL"

\* CppMicroGemm.get_b_layout and its two overrides.
get_b_layout(v) ==
    CASE v.cls = "CppMicroGemmAMX" ->
            (IF v.input_dtype = "uint8" THEN "VNNI4" ELSE "VNNI2")
      [] v.cls = "CppMicroBrgemm" ->
            (IF get_b_layout_assert(v) THEN "VNNI2" ELSE "AssertionError")
      [] OTHER -> "NORMAL"

\* The assertions of get_common_options, which every codegen_define runs.
get_common_options_asserts(v) ==
    v.input_dtype = "uint8" =>
        /\ v.compute_dtype = "int32"
        /\ v.output_dtype = "int32"
        /\ v.input2_dtype = "int8"

\* Variant: block_k is not checked.
amx_codegen_define_asserts_without_block_k(v) ==
    /\ v.register_blocking[1] % 16 = 0
    /\ v.register_blocking[2] % 16 = 0

\* The assertions at the head of CppMicroGemmAMX.codegen_define.
amx_codegen_define_asserts(v) ==
    /\ v.register_blocking[1] % 16 = 0
    /\ v.register_blocking[2] % 16 = 0
    /\ v.register_blocking[3] = (IF v.input_dtype = "uint8" THEN 64 ELSE 32)

\* codegen_define: the kernel text, or the assertion that stopped it.
codegen_define(v) ==
    IF v.cls = "CppMicroGemmAMX" /\ ~amx_codegen_define_asserts(v)
    THEN "AssertionError"
    ELSE IF ~get_common_options_asserts(v) THEN "AssertionError"
    ELSE "text"

(***************************************************************************)
(* The body of CppMicroGemmRef.TEMPLATE_ENTRY run on flat arrays: A, B and *)
(* C are functions from offsets 0 .. size-1 to values.                     *)
(***************************************************************************)
\* Variant: the product is not scaled by alpha.
RECURSIVE ref_k_loop_without_alpha(_, _, _, _, _, _, _, _, _, _)
ref_k_loop_without_alpha(A, B, lda, ldb, alpha, m, n, k, K, acc) ==
    IF k >= K THEN acc
    ELSE ref_k_loop_without_alpha(A, B, lda, ldb, alpha, m, n, k + 1, K,
                                  acc + A[m * lda + k] * B[k * ldb + n])

\* for (k = 0; k < K; ++k) result += A[m * lda + k] * B[k * ldb + n] * alpha
RECURSIVE ref_k_loop(_, _, _, _, _, _, _, _, _, _)
ref_k_loop(A, B, lda, ldb, alpha, m, n, k, K, acc) ==
    IF k >= K THEN acc
    ELSE ref_k_loop(A, B, lda, ldb, alpha, m, n, k + 1, K,
                    acc + A[m * lda + k] * B[k * ldb + n] * alpha)

\* The m and n loops from iteration i = m * N + n on; each iteration reads C
\* as the earlier iterations left it.
RECURSIVE ref_mn_loops(_, _, _, _, _, _, _, _, _, _, _, _)
ref_mn_loops(accum, alpha, A, B, C, M, N, K, lda, ldb, ldc, i) ==
    IF i >= M * N THEN C
    ELSE LET m == i \div N
             n == i % N
             init == IF accum THEN C[m * ldc + n] ELSE 0
             res == ref_k_loop(A, B, lda, ldb, alpha, m, n, 0, K, init)
         IN ref_mn_loops(accum, alpha, A, B, [C EXCEPT ![m * ldc + n] = res],
                         M, N, K, lda, ldb, ldc, i + 1)

ref_kernel(accum, alpha, A, B, C, M, N, K, lda, ldb, ldc) ==
    ref_mn_loops(accum, alpha, A, B, C, M, N, K, lda, ldb, ldc, 0)

(***************************************************************************)
(* State machine                                                           *)
(***************************************************************************)
NoCall ==
    [name |-> "", m_sym |-> FALSE, m |-> 0, n |-> 0, k |-> 0,
     input_dtype |-> "None", input2_dtype |-> "None",
     output_dtype |-> "None", compute_dtype |-> "None",
     alpha |-> 0, num_threads |-> 0, use_ref |-> FALSE,
     parallel |-> 0, hint |-> NoHint,
     m_is_int |-> TRUE, n_kind |-> "int", k_kind |-> "int"]

NoPrev == [parallel |-> 0, hint |-> NoHint, result |-> no_variant("NoResult")]

NoGen ==
    [called |-> FALSE, vec_isa_cls |-> "None", register_blockings |-> << >>,
     input_dtype |-> "None", input2_dtype |-> "None", output_dtype |-> "None",
     compute_dtype |-> "None", extra_check |-> "None", configs |-> << >>]

NoReg == [cls |-> "None", configs |-> << >>, outcome |-> "None"]

NoUse == [method |-> "None", outcome |-> "None"]

NoKernel ==
    [ran |-> FALSE, accum |-> FALSE, alpha |-> 0, M |-> 0, N |-> 0, K |-> 0,
     lda |-> 0, ldb |-> 0, ldc |-> 0, A |-> << >>, B |-> << >>,
     C_old |-> << >>, C |-> << >>]

\* No emitted AMX entry function is running.
NoAMX == [running |-> FALSE]

\* No load_dequantized_B is running.
NoDequant == [running |-> FALSE]

\* No emitted vector entry function is running.
NoVec == [running |-> FALSE]

\* The host: its best ISA and what its feature probes answer.  AMX-FP16 is
\* an extension of AMX, so only a host whose best ISA is AMX reports it.
Init ==
    /\ micro_gemm_configs = << >>
    /\ vec_isa \in HostISAs
    /\ avx512_fp16 \in BOOLEAN
    /\ amx_fp16 \in (IF vec_isa = "VecAMX" THEN BOOLEAN ELSE {FALSE})
    /\ call = NoCall
    /\ result = no_variant("NoResult")
    /\ prev = NoPrev
    /\ frame = NoFrame
    /\ gen = NoGen
    /\ reg = NoReg
    /\ use = NoUse
    /\ kernel = NoKernel
    /\ amx = NoAMX
    /\ dequant = NoDequant
    /\ vec = NoVec

\* Module load: the next class decoration runs register_micro_gemm.
LoadModule ==
    /\ Len(micro_gemm_configs) < Len(Decorations)
    /\ LET d == Decorations[Len(micro_gemm_configs) + 1]
       IN /\ register_micro_gemm_ok(micro_gemm_configs, d.cls, d.configs)
          /\ micro_gemm_configs' = register_micro_gemm(micro_gemm_configs, d.cls, d.configs)
    /\ UNCHANGED <<vec_isa, avx512_fp16, amx_fp16, call, result, prev, frame, gen, reg, use, kernel, amx, dequant, vec>>

module_loaded == Len(micro_gemm_configs) = Len(Decorations)

\* Variant: the selection pops the first class off the registry.
Invoke_pops_registry(name, m_sym, m, n, k, input_dtype, input2_dtype, output_dtype, compute_dtype, alpha, num_threads, use_ref, parallel, hint, m_is_int, n_kind, k_kind) ==
    /\ call' = [name |-> name, m_sym |-> m_sym, m |-> m, n |-> n, k |-> k,
                input_dtype |-> input_dtype, input2_dtype |-> input2_dtype,
                output_dtype |-> output_dtype, compute_dtype |-> compute_dtype,
                alpha |-> alpha, num_threads |-> num_threads,
                use_ref |-> use_ref, parallel |-> parallel, hint |-> hint,
                m_is_int |-> m_is_int, n_kind |-> n_kind, k_kind |-> k_kind]
    /\ result' = create_micro_gemm(micro_gemm_configs, call')
    /\ frame' = prologue(call')
    /\ prev' = NoPrev
    /\ micro_gemm_configs' = Tail(micro_gemm_configs)
    /\ UNCHANGED <<vec_isa, avx512_fp16, amx_fp16, gen, reg, use, kernel, amx, dequant, vec>>

\* A caller invokes create_micro_gemm with the given arguments; parallel and
\* hint are the ambient answers the call reads.
Invoke(name, m_sym, m, n, k, input_dtype, input2_dtype, output_dtype, compute_dtype, alpha, num_threads, use_ref, parallel, hint, m_is_int, n_kind, k_kind) ==
    /\ call' = [name |-> name, m_sym |-> m_sym, m |-> m, n |-> n, k |-> k,
                input_dtype |-> input_dtype, input2_dtype |-> input2_dtype,
                output_dtype |-> output_dtype, compute_dtype |-> compute_dtype,
                alpha |-> alpha, num_threads |-> num_threads,
                use_ref |-> use_ref, parallel |-> parallel, hint |-> hint,
                m_is_int |-> m_is_int, n_kind |-> n_kind, k_kind |-> k_kind]
    /\ result' = create_micro_gemm(micro_gemm_configs, call')
    /\ frame' = prologue(call')
    /\ prev' = NoPrev
    /\ UNCHANGED <<micro_gemm_configs, vec_isa, avx512_fp16, amx_fp16, gen, reg, use, kernel, amx, dequant, vec>>

\* A request with concrete m and an explicit thread count.
Call ==
    /\ module_loaded
    /\ call = NoCall
    /\ \E name \in Names, shape \in Shapes, pair \in InputPairs,
          output_dtype \in OutputDtypes, compute_dtype \in ComputeDtypes,
          alpha \in AlphaVals, num_threads \in NumThreadsVals, use_ref \in BOOLEAN :
        Invoke(name, FALSE, shape[1], shape[2], shape[3], pair[1], pair[2],
               output_dtype, compute_dtype, alpha, num_threads, use_ref, 1, NoHint,
               TRUE, "int", "int")

\* A request whose m may be symbolic and whose thread count may be left to
\* the ambient setting.
CallAmbient ==
    /\ module_loaded
    /\ call = NoCall
    /\ \E name \in Names, m_sym \in BOOLEAN, shape \in AmbientShapes,
          pair \in AmbientPairs, output_dtype \in AmbientOutputDtypes,
          compute_dtype \in AmbientComputeDtypes, alpha \in AlphaVals,
          num_threads \in AmbientNumThreadsVals, use_ref \in BOOLEAN,
          parallel \in ParallelVals :
        \E hint \in (IF m_sym THEN HintVals ELSE {NoHint}) :
            Invoke(name, m_sym, IF m_sym THEN 0 ELSE shape[1], shape[2], shape[3],
                   pair[1], pair[2], output_dtype, compute_dtype, alpha, num_threads,
                   use_ref, parallel, hint, TRUE, "int", "int")

\* The caller repeats the call with the same arguments; the ambient answers
\* may have changed in between.
Repeat ==
    /\ call # NoCall
    /\ \E parallel \in ParallelVals,
          hint \in (IF call.m_sym THEN HintVals ELSE {NoHint}) :
        /\ call' = [call EXCEPT !.parallel = parallel, !.hint = hint]
        /\ result' = create_micro_gemm(micro_gemm_configs, call')
        /\ frame' = prologue(call')
    /\ prev' = [parallel |-> call.parallel, hint |-> call.hint, result |-> result]
    /\ UNCHANGED <<micro_gemm_configs, vec_isa, avx512_fp16, amx_fp16, gen, reg, use, kernel, amx, dequant, vec>>

\* A request around the limits of the extra checks, with one thread.
CallEligibility ==
    /\ module_loaded
    /\ call = NoCall
    /\ \E name \in Names, shape \in EligibilityShapes, pair \in InputPairs,
          output_dtype \in EligibilityOutputDtypes, compute_dtype \in ComputeDtypes,
          alpha \in AlphaVals, use_ref \in BOOLEAN :
        Invoke(name, FALSE, shape[1], shape[2], shape[3], pair[1], pair[2],
               output_dtype, compute_dtype, alpha, 1, use_ref, 1, NoHint,
               TRUE, "int", "int")

\* A request whose m, n and k may be of any of the kinds a caller can pass.
CallAnyShape ==
    /\ module_loaded
    /\ call = NoCall
    /\ \E name \in Names, m_arg \in AnyMArgs, n_kind \in ShapeKinds,
          k_kind \in ShapeKinds, pair \in InputPairs,
          output_dtype \in OutputDtypes, use_ref \in BOOLEAN :
        Invoke(name, m_arg.m_sym, m_arg.m, 32, 32, pair[1], pair[2],
               output_dtype, "None", 1, 1, use_ref, 1, m_arg.hint,
               m_arg.m_is_int, n_kind, k_kind)

\* The caller asks the returned variant for the layout of B.
GetBLayout ==
    /\ result.kind = "variant"
    /\ use = NoUse
    /\ use' = [method |-> "get_b_layout", outcome |-> get_b_layout(result)]
    /\ UNCHANGED <<micro_gemm_configs, vec_isa, avx512_fp16, amx_fp16, call, result, prev, frame, gen, reg, kernel, amx, dequant, vec>>

\* The caller asks the returned variant for the definition of its kernel.
CodegenDefine ==
    /\ result.kind = "variant"
    /\ use = NoUse
    /\ use' = [method |-> "codegen_define", outcome |-> codegen_define(result)]
    /\ UNCHANGED <<micro_gemm_configs, vec_isa, avx512_fp16, amx_fp16, call, result, prev, frame, gen, reg, kernel, amx, dequant, vec>>

\* The returned variant has been used; the request's lifetime ends.
Done ==
    /\ call # NoCall
    /\ call' = NoCall
    /\ result' = no_variant("NoResult")
    /\ prev' = NoPrev
    /\ frame' = NoFrame
    /\ use' = NoUse
    /\ UNCHANGED <<micro_gemm_configs, vec_isa, avx512_fp16, amx_fp16, gen, reg, kernel, amx, dequant, vec>>

\* A decorator argument is evaluated: generate_gemm_config builds a list.
Generate ==
    /\ gen = NoGen
    /\ \E isa_check \in GenISAChecks, register_blockings \in GenBlockingLists,
          input_dtype \in GenInputDtypes, input2_dtype \in GenInput2Dtypes,
          output_dtype \in GenOutputDtypes, compute_dtype \in GenComputeDtypes :
        gen' = [called |-> TRUE, vec_isa_cls |-> isa_check[1],
                register_blockings |-> register_blockings,
                input_dtype |-> input_dtype, input2_dtype |-> input2_dtype,
                output_dtype |-> output_dtype, compute_dtype |-> compute_dtype,
                extra_check |-> isa_check[2],
                configs |-> generate_gemm_config(isa_check[1], register_blockings,
                                input_dtype, input2_dtype, output_dtype,
                                compute_dtype, isa_check[2])]
    /\ UNCHANGED <<micro_gemm_configs, vec_isa, avx512_fp16, amx_fp16, call, result, prev, frame, reg, use, kernel, amx, dequant, vec>>

\* A class is decorated after the module has loaded: register_micro_gemm is
\* applied to the generated list, or to no configuration at all.
Register ==
    /\ module_loaded
    /\ gen # NoGen
    /\ reg = NoReg
    /\ \E cls \in RegisterClasses, configs \in {gen.configs, << >>} :
        IF register_micro_gemm_ok(micro_gemm_configs, cls, configs)
        THEN /\ micro_gemm_configs' = register_micro_gemm(micro_gemm_configs, cls, configs)
             /\ reg' = [cls |-> cls, configs |-> configs, outcome |-> cls]
        ELSE /\ micro_gemm_configs' = micro_gemm_configs
             /\ reg' = [cls |-> cls, configs |-> configs, outcome |-> "AssertionError"]
    /\ UNCHANGED <<vec_isa, avx512_fp16, amx_fp16, call, result, prev, frame, gen, use, kernel, amx, dequant, vec>>

\* The flat array of a rows x cols matrix with leading dimension ld: entry
\* (i, j) at offset i * ld + j, the padding of each row filled with pad
\* (7 below, a value no entry has).
flat(rows, cols, ld, entries, pad) ==
    [o \in 0 .. rows * ld - 1 |->
        IF o % ld < cols THEN entries[<<o \div ld, o % ld>>] ELSE pad]

\* The buffers the emitted reference kernel is run on.
InitKernel ==
    /\ micro_gemm_configs = << >>
    /\ vec_isa = "InvalidVecISA"
    /\ avx512_fp16 = FALSE
    /\ amx_fp16 = FALSE
    /\ call = NoCall
    /\ result = no_variant("NoResult")
    /\ prev = NoPrev
    /\ frame = NoFrame
    /\ gen = NoGen
    /\ reg = NoReg
    /\ use = NoUse
    /\ amx = NoAMX
    /\ dequant = NoDequant
    /\ vec = NoVec
    /\ \E M \in DimVals, N \in DimVals, K \in DimVals, pad_ab \in LdPadVals,
          pad_c \in LdPadVals, accum \in BOOLEAN, alpha \in AlphaVals :
        \E a \in [(0 .. M - 1) \X (0 .. K - 1) -> AEntryVals],
           b \in [(0 .. K - 1) \X (0 .. N - 1) -> BEntryVals],
           c \in [(0 .. M - 1) \X (0 .. N - 1) -> CEntryVals] :
            kernel = [ran |-> FALSE, accum |-> accum, alpha |-> alpha,
                      M |-> M, N |-> N, K |-> K,
                      lda |-> K + pad_ab, ldb |-> N + pad_ab, ldc |-> N + pad_c,
                      A |-> flat(M, K, K + pad_ab, a, 7),
                      B |-> flat(K, N, N + pad_ab, b, 7),
                      C_old |-> flat(M, N, N + pad_c, c, 7),
                      C |-> flat(M, N, N + pad_c, c, 7)]

\* The emitted reference kernel runs once on the buffers.
RunRefKernel ==
    /\ ~kernel.ran
    /\ kernel' = [kernel EXCEPT
                    !.ran = TRUE,
                    !.C = ref_kernel(kernel.accum, kernel.alpha, kernel.A, kernel.B,
                                     kernel.C, kernel.M, kernel.N, kernel.K,
                                     kernel.lda, kernel.ldb, kernel.ldc)]
    /\ UNCHANGED <<micro_gemm_configs, vec_isa, avx512_fp16, amx_fp16, call, result, prev, frame, gen, reg, use, amx, dequant, vec>>

(***************************************************************************)
(* The code CppMicroGemmAMX emits.  A run of the emitted code is a         *)
(* sequence of steps; each operator below gives the steps of the template  *)
(* lines it models, in execution order.                                    *)
(***************************************************************************)
\* The template options codegen_define computes from the variant.
amx_template_options(v) ==
    [block_m |-> v.register_blocking[1],
     block_n |-> v.register_blocking[2],
     block_k |-> v.register_blocking[3],
     num_columns |-> v.register_blocking[2] \div 16,
     use_cached_dequantized_B |-> v.input_dtype = "bfloat16" /\ v.input2_dtype = "int8",
     input_dtype |-> v.input_dtype]

\* The steps of one tile-kernel call.  A field a step does not use is -1.
configure_step(rows, colsb, num_c_rows, num_c_cols) ==
    [op |-> "configure", rows |-> rows, colsb |-> colsb,
     tile_rows |-> num_c_rows, tile_cols |-> num_c_cols, k |-> -1]

load_c == [op |-> "load_c", rows |-> -1, colsb |-> -1, tile_rows |-> -1, tile_cols |-> -1, k |-> -1]

zero_c == [op |-> "zero_c", rows |-> -1, colsb |-> -1, tile_rows |-> -1, tile_cols |-> -1, k |-> -1]

store_c == [op |-> "store_c", rows |-> -1, colsb |-> -1, tile_rows |-> -1, tile_cols |-> -1, k |-> -1]

compute(k) == [op |-> "compute", rows |-> -1, colsb |-> -1, tile_rows |-> -1, tile_cols |-> -1, k |-> k]

last_k_offset(o, K) == (K \div o.block_k) * o.block_k

tail_k_size(o, K) == K - last_k_offset(o, K)

\* Variant: the kernel always configures 64 bytes per row on entry.
amx_kernel_configure_always_bulk(o, num_rows, K, tilecfg_rows) ==
    << configure_step(tilecfg_rows, 64, num_rows \div 16, o.num_columns) >>

amx_kernel_configure(o, num_rows, K, tilecfg_rows) ==
    IF last_k_offset(o, K) > 0
    THEN << configure_step(tilecfg_rows, 64, num_rows \div 16, o.num_columns) >>
    ELSE << configure_step(tilecfg_rows, tail_k_size(o, K) * itemsize(o.input_dtype),
                           num_rows \div 16, o.num_columns) >>

amx_kernel_init_c(accum) == IF accum THEN << load_c >> ELSE << zero_c >>

\* Variant: the bulk loop also runs for k = last_k_offset.
RECURSIVE amx_kernel_bulk_inclusive(_, _, _)
amx_kernel_bulk_inclusive(o, K, k) ==
    IF k <= last_k_offset(o, K)
    THEN << compute(k) >> \o amx_kernel_bulk_inclusive(o, K, k + o.block_k)
    ELSE << >>

\* for (int k = 0; k < last_k_offset; k += block_k) compute(k);
RECURSIVE amx_kernel_bulk(_, _, _)
amx_kernel_bulk(o, K, k) ==
    IF k < last_k_offset(o, K)
    THEN << compute(k) >> \o amx_kernel_bulk(o, K, k + o.block_k)
    ELSE << >>

\* Variant: the tail is computed without reconfiguring the tile unit.
amx_kernel_tail_without_configure(o, num_rows, K, tilecfg_rows) ==
    IF tail_k_size(o, K) > 0 THEN << compute(last_k_offset(o, K)) >> ELSE << >>

amx_kernel_tail(o, num_rows, K, tilecfg_rows) ==
    IF tail_k_size(o, K) > 0
    THEN (IF last_k_offset(o, K) > 0
          THEN << store_c,
                  configure_step(tilecfg_rows, tail_k_size(o, K) * itemsize(o.input_dtype),
                                 num_rows \div 16, o.num_columns),
                  load_c >>
          ELSE << >>)
         \o << compute(last_k_offset(o, K)) >>
    ELSE << >>

\* kernel_amx_kernel_<num_rows>_<num_columns><accum>(amx_state, A, B, C, K,
\* lda, ldb, ldc, tilecfg_rows)
amx_kernel(o, num_rows, accum, K, tilecfg_rows) ==
    amx_kernel_configure(o, num_rows, K, tilecfg_rows)
    \o amx_kernel_init_c(accum)
    \o amx_kernel_bulk(o, K, 0)
    \o amx_kernel_tail(o, num_rows, K, tilecfg_rows)
    \o << store_c >>

\* AMXState::configure: the configuration the tile unit holds afterwards.
configure(tile, rows, colsb, num_c_rows, num_c_cols) ==
    [rows |-> rows, colsb |-> colsb, tile_rows |-> num_c_rows, tile_cols |-> num_c_cols]

\* AMXState amx_state; no configuration is loaded yet.
NoTile == [rows |-> 0, colsb |-> 0, tile_rows |-> 0, tile_cols |-> 0]

\* The steps of the entry function: a call of load_dequantized_B(n), or a
\* tile-kernel call on the rows from m of the N-block at n.
load_dequantized_B_call(n) ==
    [op |-> "load_dequantized_B", num_rows |-> -1, m |-> -1, n |-> n,
     tilecfg_rows |-> -1, B |-> "B", B_offset |-> n]

kernel_call(num_rows, m, n, tilecfg_rows, B, B_offset) ==
    [op |-> "kernel", num_rows |-> num_rows, m |-> m, n |-> n,
     tilecfg_rows |-> tilecfg_rows, B |-> B, B_offset |-> B_offset]

\* The if / else-if chain over num_rows in range(block_m, 0, -16): the
\* num_rows of the branch taken, 0 when none is.
RECURSIVE amx_full_rows(_, _)
amx_full_rows(num_rows, block_m) ==
    IF num_rows <= 0 THEN 0
    ELSE IF block_m >= num_rows THEN num_rows
    ELSE amx_full_rows(num_rows - 16, block_m)

\* Variant: the tail call starts at m, not at m_tail.
amx_m_block_tail_at_m(o, M, n, m) ==
    LET block_m == IF M - m < o.block_m THEN M - m ELSE o.block_m
        full == amx_full_rows(o.block_m, block_m)
        B == IF o.use_cached_dequantized_B THEN "dequantized_B_buf" ELSE "B"
        B_offset == IF o.use_cached_dequantized_B THEN 0 ELSE n
    IN (IF full > 0 THEN << kernel_call(full, m, n, 16, B, B_offset) >> ELSE << >>)
       \o (IF block_m - full > 0
           THEN << kernel_call(16, m, n, block_m - full, B, B_offset) >>
           ELSE << >>)

\* The body of the loop over m.
amx_m_block(o, M, n, m) ==
    LET block_m == IF M - m < o.block_m THEN M - m ELSE o.block_m
        full == amx_full_rows(o.block_m, block_m)
        m_tail == m + full
        B == IF o.use_cached_dequantized_B THEN "dequantized_B_buf" ELSE "B"
        B_offset == IF o.use_cached_dequantized_B THEN 0 ELSE n
    IN (IF full > 0 THEN << kernel_call(full, m, n, 16, B, B_offset) >> ELSE << >>)
       \o (IF block_m - full > 0
           THEN << kernel_call(16, m_tail, n, block_m - full, B, B_offset) >>
           ELSE << >>)

RECURSIVE amx_m_loop(_, _, _, _)
amx_m_loop(o, M, n, m) ==
    IF m < M
    THEN amx_m_block(o, M, n, m) \o amx_m_loop(o, M, n, m + o.block_m)
    ELSE << >>

\* Variant: B is dequantized before the first N-block only.
amx_n_block_dequantize_first_only(o, M, n) ==
    (IF o.use_cached_dequantized_B /\ n = 0 THEN << load_dequantized_B_call(n) >> ELSE << >>)
    \o amx_m_loop(o, M, n, 0)

\* The body of the loop over n.
amx_n_block(o, M, n) ==
    (IF o.use_cached_dequantized_B THEN << load_dequantized_B_call(n) >> ELSE << >>)
    \o amx_m_loop(o, M, n, 0)

RECURSIVE amx_n_loop(_, _, _, _)
amx_n_loop(o, M, N, n) ==
    IF n < N
    THEN amx_n_block(o, M, n) \o amx_n_loop(o, M, N, n + o.block_n)
    ELSE << >>

\* The two assertions at the top of the entry function.
amx_entry_asserts(o, N, K) == N % o.block_n = 0 /\ K % 2 = 0

amx_entry(o, M, N, K) ==
    IF amx_entry_asserts(o, N, K) THEN amx_n_loop(o, M, N, 0) ELSE << >>

\* The rows of A and C a tile-kernel call works on: num_rows / 16 tile rows,
\* 16 rows apart from row m, each tilecfg_rows rows high.
amx_kernel_rows(c) ==
    {c.m + tile_row * 16 + r : tile_row \in 0 .. c.num_rows \div 16 - 1,
                               r \in 0 .. c.tilecfg_rows - 1}

\* No tile-kernel call is running.
NoKernelCall == kernel_call(0, 0, 0, 0, "None", 0)

\* The variants the AMX class is registered for.
AMXVariants ==
    {[register_blocking |-> AMXConfigs[i].register_blocking,
      input_dtype |-> AMXConfigs[i].input_dtype,
      input2_dtype |-> AMXConfigs[i].input2_dtype] : i \in 1 .. Len(AMXConfigs)}

AMXMVals(o) ==
    {mb * o.block_m + r : mb \in 0 .. MaxAMXMBlocks - 1,
                          r \in {x \in AMXRowRemainders : x < o.block_m}}

\* The multiples of block_n, and one N that is not a multiple.
AMXNVals(o) == {nb * o.block_n : nb \in 0 .. MaxAMXNBlocks} \cup {o.block_n + 1}

\* Even K with and without bulk and tail parts, and one odd K.
AMXKVals(o) ==
    {kb * o.block_k + t : kb \in 0 .. MaxAMXKBlocks, t \in AMXKRemainders} \cup {1}

\* The generated code is entered once, with a fresh AMXState.
InitAMX ==
    /\ micro_gemm_configs = << >>
    /\ vec_isa = "VecAMX"
    /\ avx512_fp16 = FALSE
    /\ amx_fp16 = FALSE
    /\ call = NoCall
    /\ result = no_variant("NoResult")
    /\ prev = NoPrev
    /\ frame = NoFrame
    /\ gen = NoGen
    /\ reg = NoReg
    /\ use = NoUse
    /\ kernel = NoKernel
    /\ dequant = NoDequant
    /\ vec = NoVec
    /\ \E v \in AMXVariants, accum \in BOOLEAN :
        LET o == amx_template_options(v)
        IN \E M \in AMXMVals(o), N \in AMXNVals(o), K \in AMXKVals(o) :
            amx = [running |-> TRUE, options |-> o, accum |-> accum,
                   M |-> M, N |-> N, K |-> K,
                   raised |-> ~amx_entry_asserts(o, N, K),
                   entry |-> amx_entry(o, M, N, K),
                   cur |-> NoKernelCall, body |-> << >>,
                   tile |-> NoTile, slab |-> -1,
                   log |-> << >>, calls |-> << >>, loads |-> << >>]

\* The entry function takes its next step: it dequantizes the slab of B for
\* the N-block at n into dequantized_B_buf, or it enters a tile kernel.
AMXEntryStep ==
    /\ amx.running
    /\ amx.body = << >>
    /\ amx.entry # << >>
    /\ LET s == Head(amx.entry)
       IN amx' = IF s.op = "load_dequantized_B"
                 THEN [amx EXCEPT !.entry = Tail(amx.entry),
                                  !.cur = NoKernelCall,
                                  !.log = << >>,
                                  !.slab = s.n,
                                  !.loads = Append(amx.loads, s.n)]
                 ELSE [amx EXCEPT !.entry = Tail(amx.entry),
                                  !.cur = s,
                                  !.body = amx_kernel(amx.options, s.num_rows, amx.accum,
                                                      amx.K, s.tilecfg_rows),
                                  !.log = << >>,
                                  !.calls = Append(amx.calls,
                                                   [call |-> s, slab |-> amx.slab])]
    /\ UNCHANGED <<micro_gemm_configs, vec_isa, avx512_fp16, amx_fp16, call, result, prev, frame, gen, reg, use, kernel, dequant, vec>>

\* The running tile kernel takes its next step.  The log keeps each step of
\* the call with the configuration the tile unit holds when it executes.
AMXKernelStep ==
    /\ amx.running
    /\ amx.body # << >>
    /\ LET s == Head(amx.body)
           tile == IF s.op = "configure"
                   THEN configure(amx.tile, s.rows, s.colsb, s.tile_rows, s.tile_cols)
                   ELSE amx.tile
       IN amx' = [amx EXCEPT !.body = Tail(amx.body),
                             !.tile = tile,
                             !.log = Append(amx.log, [step |-> s, tile |-> tile])]
    /\ UNCHANGED <<micro_gemm_configs, vec_isa, avx512_fp16, amx_fp16, call, result, prev, frame, gen, reg, use, kernel, dequant, vec>>

(***************************************************************************)
(* load_dequantized_B of the emitted AMX entry function.                   *)
(***************************************************************************)
\* Jinja's range(start, stop, step), step not 0.
RECURSIVE range(_, _, _)
range(start, stop, step) ==
    IF (step > 0 /\ start < stop) \/ (step < 0 /\ start > stop)
    THEN << start >> \o range(start + step, stop, step)
    ELSE << >>

\* The vector operations the template renders into the body of the loop
\* over the rows: for each, the column offset it loads from and stores to,
\* the number of int8 elements it loads and the number of converted elements
\* it stores.  A store without a count writes the whole converted vector.
load_dequantized_B_body(block_n) ==
    LET vec_idxs == range(0, block_n - 1, 32)
    IN [i \in 1 .. Len(vec_idxs) |->
           [offset |-> vec_idxs[i], loaded |-> 32, stored |-> 32]]
       \o (IF block_n % 32 # 0
           THEN << [offset |-> block_n - (block_n % 32),
                    loaded |-> block_n % 32, stored |-> block_n % 32] >>
           ELSE << >>)

\* The block_n the variants with a cached dequantized B are registered with.
DequantBlockNs ==
    {v.register_blocking[2] : v \in {w \in AMXVariants :
                                        amx_template_options(w).use_cached_dequantized_B}}

\* load_dequantized_B(base_idx) is entered: B has K rows of ldb = N int8
\* elements, dequantized_B_buf has buf_size = K * block_n elements.
InitDequant ==
    /\ micro_gemm_configs = << >>
    /\ vec_isa = "VecAMX"
    /\ avx512_fp16 = FALSE
    /\ amx_fp16 = FALSE
    /\ call = NoCall
    /\ result = no_variant("NoResult")
    /\ prev = NoPrev
    /\ frame = NoFrame
    /\ gen = NoGen
    /\ reg = NoReg
    /\ use = NoUse
    /\ kernel = NoKernel
    /\ amx = NoAMX
    /\ vec = NoVec
    /\ \E block_n \in DequantBlockNs, K \in 1 .. MaxDequantK, nblocks \in 1 .. 2 :
        \E base_idx \in {nb * block_n : nb \in 0 .. nblocks - 1} :
            dequant = [running |-> TRUE, block_n |-> block_n, K |-> K,
                       ldb |-> nblocks * block_n, base_idx |-> base_idx,
                       buf_size |-> K * block_n,
                       idx_dq |-> 0, idx_q |-> 0, rows |-> 0,
                       loads |-> {}, stores |-> {},
                       out_of_bounds |-> FALSE, faulted |-> FALSE]

\* One iteration of the loop over the rows.  loads holds, per vector load,
\* the row of B and the columns [from, to) relative to base_idx it reads;
\* stores holds the positions [from, to) of dequantized_B_buf written.  An
\* access that leaves B or the buffer is undefined behaviour: the run goes on
\* or faults.
DequantRow ==
    /\ dequant.running
    /\ ~dequant.faulted
    /\ dequant.idx_dq < dequant.buf_size
    /\ LET body == load_dequantized_B_body(dequant.block_n)
           loads == {[row |-> dequant.rows, from |-> body[i].offset,
                      to |-> body[i].offset + body[i].loaded] : i \in 1 .. Len(body)}
           stores == {[from |-> dequant.idx_dq + body[i].offset,
                       to |-> dequant.idx_dq + body[i].offset + body[i].stored] :
                          i \in 1 .. Len(body)}
           out == \/ \E l \in loads :
                        dequant.base_idx + dequant.idx_q + l.to > dequant.K * dequant.ldb
                  \/ \E s \in stores : s.to > dequant.buf_size
       IN \E fault \in (IF out THEN BOOLEAN ELSE {FALSE}) :
           dequant' = [dequant EXCEPT
                          !.idx_dq = dequant.idx_dq + dequant.block_n,
                          !.idx_q = dequant.idx_q + dequant.ldb,
                          !.rows = dequant.rows + 1,
                          !.loads = loads,
                          !.stores = stores,
                          !.out_of_bounds = dequant.out_of_bounds \/ out,
                          !.faulted = fault]
    /\ UNCHANGED <<micro_gemm_configs, vec_isa, avx512_fp16, amx_fp16, call, result, prev, frame, gen, reg, use, kernel, amx, vec>>

\* The loop over the rows is over: load_dequantized_B returns.
DequantReturn ==
    /\ dequant.running
    /\ ~dequant.faulted
    /\ dequant.idx_dq >= dequant.buf_size
    /\ dequant' = [dequant EXCEPT !.running = FALSE]
    /\ UNCHANGED <<micro_gemm_configs, vec_isa, avx512_fp16, amx_fp16, call, result, prev, frame, gen, reg, use, kernel, amx, vec>>

NextDequant == DequantRow \/ DequantReturn

(***************************************************************************)
(* The entry function CppMicroGemmFP32Vec and CppFP16MicroGemm emit.       *)
(***************************************************************************)
\* Variant: the switch has no case for one row.
vec_switch_cases_from_2(block_m) == range(block_m - 1, 1, -1)

\* The case labels the template renders into switch (block_m).
vec_switch_cases(block_m) == range(block_m - 1, 0, -1)

\* The body of the loop over n for an M-block of block_m rows: the inner
\* kernel instantiation called, or the failed assertion of the default
\* branch.  register_block_m is the block_m of the register blocking.
vec_n_block(register_block_m, block_m, m, n) ==
    LET cases == vec_switch_cases(register_block_m)
    IN IF block_m = register_block_m
       THEN [op |-> "kernel", BLOCK_M |-> register_block_m, m |-> m, n |-> n]
       ELSE IF \E i \in 1 .. Len(cases) : cases[i] = block_m
       THEN [op |-> "kernel", BLOCK_M |-> block_m, m |-> m, n |-> n]
       ELSE [op |-> "Unsupported block_m", BLOCK_M |-> block_m, m |-> m, n |-> n]

RECURSIVE vec_n_loop(_, _, _, _, _)
vec_n_loop(o, block_m, m, N, n) ==
    IF n < N
    THEN << vec_n_block(o.block_m, block_m, m, n) >>
         \o vec_n_loop(o, block_m, m, N, n + o.block_n)
    ELSE << >>

RECURSIVE vec_m_loop(_, _, _, _)
vec_m_loop(o, M, N, m) ==
    IF m < M
    THEN vec_n_loop(o, IF M - m < o.block_m THEN M - m ELSE o.block_m, m, N, 0)
         \o vec_m_loop(o, M, N, m + o.block_m)
    ELSE << >>

\* The two assertions at the top of the entry function.
vec_entry_asserts(o, N, K) == N % o.block_n = 0 /\ K % o.block_k = 0

vec_entry(o, M, N, K) ==
    IF vec_entry_asserts(o, N, K) THEN vec_m_loop(o, M, N, 0) ELSE << >>

\* The (class, register blocking) pairs of the two vector classes.
VecVariants ==
    UNION {{[cls |-> Decorations[d].cls,
             block_m |-> Decorations[d].configs[i].register_blocking[1],
             block_n |-> Decorations[d].configs[i].register_blocking[2],
             block_k |-> Decorations[d].configs[i].register_blocking[3]] :
               i \in 1 .. Len(Decorations[d].configs)} : d \in {1, 2}}

\* The generated entry function is entered once.
InitVec ==
    /\ micro_gemm_configs = << >>
    /\ vec_isa = "VecAVX512"
    /\ avx512_fp16 = FALSE
    /\ amx_fp16 = FALSE
    /\ call = NoCall
    /\ result = no_variant("NoResult")
    /\ prev = NoPrev
    /\ frame = NoFrame
    /\ gen = NoGen
    /\ reg = NoReg
    /\ use = NoUse
    /\ kernel = NoKernel
    /\ amx = NoAMX
    /\ dequant = NoDequant
    /\ \E o \in VecVariants :
        \E M \in 0 .. MaxVecMBlocks * o.block_m,
           N \in {nb * o.block_n : nb \in 0 .. MaxVecNBlocks} \cup {o.block_n + 1},
           K \in {0, 1, 2} :
            vec = [running |-> TRUE, options |-> o, M |-> M, N |-> N, K |-> K,
                   raised |-> IF vec_entry_asserts(o, N, K) THEN "None"
                              ELSE "N or K not a multiple",
                   entry |-> vec_entry(o, M, N, K),
                   calls |-> << >>]

\* The entry function takes its next step: an inner kernel call, or the
\* assertion of the default branch, which ends the run.
VecEntryStep ==
    /\ vec.running
    /\ vec.raised = "None"
    /\ vec.entry # << >>
    /\ LET s == Head(vec.entry)
       IN vec' = IF s.op = "kernel"
                 THEN [vec EXCEPT !.entry = Tail(vec.entry),
                                  !.calls = Append(vec.calls, s)]
                 ELSE [vec EXCEPT !.entry = << >>, !.raised = s.op]
    /\ UNCHANGED <<micro_gemm_configs, vec_isa, avx512_fp16, amx_fp16, call, result, prev, frame, gen, reg, use, kernel, amx, dequant>>

NextVec == VecEntryStep

NextAMX == AMXEntryStep \/ AMXKernelStep

\* A caller constructs CppMicroGemmAMX itself, without create_micro_gemm:
\* CppMicroGemmAMX(name, input_dtype, input2_dtype, output_dtype,
\* compute_dtype, register_blocking).  The call is recorded under the name
\* "direct".
ConstructAMX ==
    /\ call = NoCall
    /\ \E dtypes \in DirectDtypes, register_blocking \in DirectBlockings :
        /\ call' = [NoCall EXCEPT !.name = "direct",
                                  !.input_dtype = dtypes[1], !.input2_dtype = dtypes[2],
                                  !.output_dtype = dtypes[3], !.compute_dtype = dtypes[4]]
        /\ result' = variant("CppMicroGemmAMX", "direct", dtypes[1], dtypes[2],
                             dtypes[3], dtypes[4], register_blocking, 1)
    /\ UNCHANGED <<micro_gemm_configs, vec_isa, avx512_fp16, amx_fp16, prev, frame, gen, reg, use, kernel, amx, dequant, vec>>

NextDefine == LoadModule \/ CallAnyShape \/ ConstructAMX \/ CodegenDefine \/ Done

Next == LoadModule \/ Call \/ Done

NextAmbient == LoadModule \/ CallAmbient \/ Repeat \/ Done

NextEligibility == LoadModule \/ CallEligibility \/ Done

NextUse == LoadModule \/ CallAnyShape \/ GetBLayout \/ CodegenDefine \/ Done

NextRegister == LoadModule \/ Generate \/ Register

NextKernel == RunRefKernel

Spec == Init /\ [][Next]_vars

\* The same behaviours, under the name the properties of the ranking use.
SpecRanking == Init /\ [][Next]_vars

SpecAmbient == Init /\ [][NextAmbient]_vars

SpecEligibility == Init /\ [][NextEligibility]_vars

SpecUse == Init /\ [][NextUse]_vars

SpecRegister == Init /\ [][NextRegister]_vars

SpecKernel == InitKernel /\ [][NextKernel]_vars

SpecAMX == InitAMX /\ [][NextAMX]_vars

SpecDequant == InitDequant /\ [][NextDequant]_vars

SpecVec == InitVec /\ [][NextVec]_vars

SpecDefine == Init /\ [][NextDefine]_vars

(***************************************************************************)
(* Properties of the selector.  The definitions below read the last call   *)
(* and its result.                                                         *)
(***************************************************************************)
called == call # NoCall

returned == called /\ result.kind = "variant"

req == normalized(call)

all_items == items(micro_gemm_configs)

\* The indices of the pairs of its that survive the filters for request r.
surviving(its, r) == {i \in 1 .. Len(its) : survives(its[i].config, r)}

\* The registered (cls, config) pairs the returned variant can have been
\* built from: same class, dtypes and blocking.
chosen(its) ==
    {i \in 1 .. Len(its) :
        /\ its[i].cls = result.cls
        /\ its[i].config.input_dtype = result.input_dtype
        /\ its[i].config.input2_dtype = result.input2_dtype
        /\ its[i].config.output_dtype = result.output_dtype
        /\ its[i].config.compute_dtype = result.compute_dtype
        /\ its[i].config.register_blocking = result.register_blocking}

from_amx_config ==
    LET its == all_items
    IN \E i \in chosen(its) : its[i].config.vec_isa_cls = "VecAMX"

AMXBf16BlockingSet == {<<32, 32, 32>>, <<48, 16, 32>>, <<16, 48, 32>>}

\* The request create_micro_gemm("k0", 256, 256, 256, bfloat16, bfloat16, ...)
\* with alpha at its default of 1, on a host whose best ISA is AMX.
C1_request ==
    /\ called
    /\ call.name = "k0"
    /\ ~call.m_sym /\ call.m = 256 /\ call.n = 256 /\ call.k = 256
    /\ call.input_dtype = "bfloat16" /\ call.input2_dtype = "bfloat16"
    /\ call.alpha = 1
    /\ vec_isa = "VecAMX"

C1_returns_amx ==
    /\ result.kind = "variant"
    /\ result.cls = "CppMicroGemmAMX"
    /\ result.register_blocking \in AMXBf16BlockingSet

\* C1 as stated: with output_dtype and compute_dtype left unspecified, the
\* 256^3 bfloat16 x bfloat16 request on an AMX host returns a CppMicroGemmAMX
\* whose blocking is one of (32,32,32), (48,16,32), (16,48,32).
C1_Unspecified_Dtypes_Return_AMX ==
    (C1_request /\ call.output_dtype = "None" /\ call.compute_dtype = "None")
        => C1_returns_amx

\* C1 amended: the same request with output_dtype = float passed (and
\* compute_dtype unspecified or float) returns a CppMicroGemmAMX whose
\* blocking is one of (32,32,32), (48,16,32), (16,48,32).
C1_Float_Output_Returns_AMX ==
    (C1_request /\ call.output_dtype = "float"
        /\ call.compute_dtype \in {"None", "float"})
        => C1_returns_amx

C1_Witness ==
    /\ C1_request
    /\ call.output_dtype = "float"
    /\ call.compute_dtype = "None"
    /\ C1_returns_amx

\* C2: when no registered configuration survives the filters, the call
\* returns the reference variant if use_ref and None otherwise; a
\* float64 x float64 request is such a request.
C2_No_Match_Falls_Back ==
    /\ (called /\ result.kind # "AssertionError"
            /\ surviving(all_items, req) = {})
            => IF call.use_ref
               THEN result.kind = "variant" /\ result.cls = "CppMicroGemmRef"
               ELSE result.kind = "None"
    /\ (called /\ call.input_dtype = "float64" /\ call.input2_dtype = "float64"
            /\ call.use_ref)
            => (result.kind = "variant" /\ result.cls = "CppMicroGemmRef")

C2_Witness ==
    /\ called
    /\ call.input_dtype = "float64" /\ call.input2_dtype = "float64"
    /\ call.use_ref
    /\ vec_isa = "VecAMX"
    /\ result.kind = "variant" /\ result.cls = "CppMicroGemmRef"

\* C3 as stated: a returned AMX configuration whose second operand is int8
\* (bfloat16 x int8 or uint8 x int8) never has m < block_m.
C3_Int8_Weight_AMX_Never_Small_M ==
    (returned /\ result.input2_dtype = "int8" /\ from_amx_config)
        => ~(req.m < result.register_blocking[1])

\* C3 amended: a returned AMX configuration of the bfloat16 x int8 family
\* never has m < block_m (the uint8 x int8 family is not filtered by m).
C3_Bf16_Int8_AMX_Never_Small_M ==
    (returned /\ result.input_dtype = "bfloat16"
        /\ result.input2_dtype = "int8" /\ from_amx_config)
        => ~(req.m < result.register_blocking[1])

\* m = 16 is below block_m of (32,32,32) and (48,16,32), both otherwise
\* eligible, and (16,48,32) is returned.
C3_Witness ==
    /\ returned
    /\ vec_isa = "VecAMX"
    /\ call.input_dtype = "bfloat16" /\ call.input2_dtype = "int8"
    /\ req.m = 16 /\ call.k = 32 /\ call.alpha = 1
    /\ result.cls = "CppMicroGemmAMX"
    /\ result.register_blocking = <<16, 48, 32>>

C4_condition ==
    /\ req.m <= 4
    /\ call.input_dtype = "bfloat16"
    /\ call.input2_dtype = "int8"
    /\ avx512_fp16
    /\ call.n % 32 = 0

C4_passed_output == IF call.output_dtype = "None" THEN call.input_dtype ELSE call.output_dtype

C4_passed_compute == IF call.compute_dtype = "None" THEN C4_passed_output ELSE call.compute_dtype

\* C4: when m <= 4, input is bfloat16, input2 is int8, AVX512-FP16 is
\* reported and n is a multiple of 32, the returned variant carries
\* output_dtype = compute_dtype = float16 whatever was passed; otherwise it
\* carries the passed (or defaulted) dtypes.
C4_FP16_Upgrade ==
    returned =>
        IF C4_condition
        THEN result.output_dtype = "half" /\ result.compute_dtype = "half"
        ELSE /\ result.output_dtype = C4_passed_output
             /\ result.compute_dtype = C4_passed_compute

C4_Witness ==
    /\ returned
    /\ C4_condition
    /\ call.output_dtype = "float"
    /\ call.compute_dtype = "float"
    /\ result.cls = "CppFP16MicroGemm"
    /\ result.output_dtype = "half"

\* The score tuple as C5 states it, for request r.
C5_score(config, r) ==
    LET block_m == config.register_blocking[1]
        block_n == config.register_blocking[2]
        block_k == config.register_blocking[3]
        n_blocks == (r.n + block_n - 1) \div block_n
        m_blocks == (r.m + block_m - 1) \div block_m
    IN << IF config.vec_isa_cls = "VecAMX" THEN 1 ELSE 0,
          Cardinality({d \in {<<1, r.m % block_m>>, <<2, r.n % block_n>>,
                               <<3, r.k % block_k>>} : d[2] = 0}),
          Cardinality({t \in {<<1, n_blocks>>, <<2, n_blocks * m_blocks>>} :
                          t[2] >= r.num_threads}),
          block_m * block_n * itemsize(config.compute_dtype)
            + (block_m * block_k + block_k * block_n) * itemsize(config.input_dtype) >>

\* The scores of the pairs of its, by index.
C5_scores(its, r) == [i \in 1 .. Len(its) |-> C5_score(its[i].config, r)]

lex_ge(a, b) ==
    \/ a[1] > b[1]
    \/ a[1] = b[1] /\ a[2] > b[2]
    \/ a[1] = b[1] /\ a[2] = b[2] /\ a[3] > b[3]
    \/ a[1] = b[1] /\ a[2] = b[2] /\ a[3] = b[3] /\ a[4] >= b[4]

\* C5: when a candidate survives, the returned variant is built from a
\* surviving pair whose score is lexicographically >= every surviving
\* pair's score, and carries the caller's alpha.
C5_Returns_Lexicographic_Maximum ==
    called =>
        LET its == all_items
            surv == surviving(its, req)
            sc == C5_scores(its, req)
        IN (result.kind # "AssertionError" /\ surv # {}) =>
              /\ result.kind = "variant"
              /\ result.alpha = call.alpha
              /\ \E i \in chosen(its) \cap surv :
                    \A j \in surv : lex_ge(sc[i], sc[j])

\* The winner is not the first survivor, and beats an earlier one on the
\* occupancy component while having fewer register bytes.
C5_Witness ==
    /\ returned
    /\ LET its == all_items
           surv == surviving(its, req)
           sc == C5_scores(its, req)
       IN \E i \in chosen(its) \cap surv, j \in surv :
             /\ j < i
             /\ sc[i][1] = sc[j][1]
             /\ sc[i][2] = sc[j][2]
             /\ sc[i][3] > sc[j][3]
             /\ sc[i][4] < sc[j][4]

\* C6: when an AMX-requiring and a plain-vector configuration both survive,
\* the returned variant is built from an AMX-requiring configuration.
C6_AMX_Preferred ==
    called =>
        LET its == all_items
            surv == surviving(its, req)
        IN (/\ result.kind # "AssertionError"
            /\ \E i \in surv : its[i].config.vec_isa_cls = "VecAMX"
            /\ \E j \in surv : its[j].config.vec_isa_cls \in {"VecAVX2", "VecAVX512"})
            => (result.kind = "variant" /\ from_amx_config)

\* A surviving vector configuration divides the shape better than the AMX
\* configuration that is returned.
C6_Witness ==
    /\ returned
    /\ from_amx_config
    /\ LET its == all_items
           surv == surviving(its, req)
           sc == C5_scores(its, req)
       IN \E i \in chosen(its), j \in surv :
             /\ its[j].config.vec_isa_cls \in {"VecAVX2", "VecAVX512"}
             /\ sc[j][2] > sc[i][2]

C7_example ==
    /\ called
    /\ ~call.m_sym /\ call.m = 48 /\ call.n = 48 /\ call.k = 32
    /\ call.input_dtype = "bfloat16" /\ call.input2_dtype = "bfloat16"
    /\ call.output_dtype = "float" /\ call.compute_dtype = "float"
    /\ call.alpha = 1
    /\ call.num_threads = 1
    /\ vec_isa = "VecAMX"

\* C7: among surviving candidates of equal score the one first in registry
\* iteration order is returned; for the bfloat16 request m = 48, n = 48,
\* k = 32, num_threads = 1 on AMX, (48,16,32) and (16,48,32) tie and
\* (48,16,32) is returned.
C7_First_Of_Equal_Scores ==
    /\ returned =>
          LET its == all_items
              surv == surviving(its, req)
              sc == C5_scores(its, req)
          IN \A i \in chosen(its) \cap surv : \A j \in surv :
                (sc[j] = sc[i]) => i <= j
    /\ C7_example =>
          /\ result.kind = "variant"
          /\ result.cls = "CppMicroGemmAMX"
          /\ result.register_blocking = <<48, 16, 32>>

C7_Witness ==
    /\ C7_example
    /\ result.register_blocking = <<48, 16, 32>>
    /\ LET its == all_items
           surv == surviving(its, req)
           sc == C5_scores(its, req)
       IN \E i \in chosen(its), j \in surv :
             /\ i < j
             /\ its[j].config.register_blocking = <<16, 48, 32>>
             /\ sc[j] = sc[i]

\* C8 as stated: a call repeated with identical arguments, registry and
\* host ISA / feature-probe answers returns the same variant (or None).
C8_Same_Arguments_Same_Result ==
    (prev # NoPrev) => (prev.result = result)

\* C8 amended: ... and, when num_threads < 0, the same ambient parallel
\* thread count, and, when m is symbolic, the same size hint.
C8_Same_Arguments_And_Ambient_Same_Result ==
    (/\ prev # NoPrev
     /\ (call.num_threads < 0 => prev.parallel = call.parallel)
     /\ (call.m_sym => prev.hint = call.hint))
        => (prev.result = result)

\* The ambient thread count changed between the two calls, num_threads was
\* given, and the same specialized variant came back.
C8_Witness ==
    /\ prev # NoPrev
    /\ call.num_threads >= 0
    /\ ~call.m_sym
    /\ prev.parallel # call.parallel
    /\ returned
    /\ result.cls = "CppMicroGemmFP32Vec"
    /\ prev.result = result

\* C9: a returned specialized variant is built from a configuration whose
\* required ISA class the host's ISA class is or derives from; with no ISA
\* detected the call does not raise and yields the reference variant when
\* use_ref; an AMX-requiring variant is returned only on an AMX host.
C9_Required_ISA_Satisfied ==
    /\ (returned /\ result.cls # "CppMicroGemmRef") =>
          LET its == all_items
              ch == chosen(its)
          IN /\ ch # {}
             /\ \A i \in ch : issubclass(vec_isa, its[i].config.vec_isa_cls)
             /\ (\E i \in ch : its[i].config.vec_isa_cls = "VecAMX")
                    => vec_isa = "VecAMX"
    /\ (called /\ vec_isa = "InvalidVecISA") =>
          /\ result.kind # "AssertionError"
          /\ call.use_ref => (result.kind = "variant" /\ result.cls = "CppMicroGemmRef")

\* On an AVX512 host a request the AMX configurations would serve gets the
\* vector variant.
C9_Witness ==
    /\ returned
    /\ vec_isa = "VecAVX512"
    /\ call.input_dtype = "bfloat16" /\ call.input2_dtype = "bfloat16"
    /\ call.m = 32 /\ call.n = 32 /\ call.k = 32 /\ call.alpha = 1
    /\ result.cls = "CppMicroGemmFP32Vec"

C10_blocking_ok(input_dtype, register_blocking) ==
    /\ register_blocking[1] % 16 = 0
    /\ register_blocking[2] % 16 = 0
    /\ register_blocking[3] = (IF input_dtype = "uint8" THEN 64 ELSE 32)

\* C10: every registered AMX-requiring configuration, and every
\* AMX-requiring variant returned, has block_m and block_n multiples of 16
\* and block_k = 64 for uint8 input, 32 otherwise.
C10_AMX_Blocking_Shape ==
    /\ LET its == all_items
       IN \A i \in 1 .. Len(its) :
             its[i].config.vec_isa_cls = "VecAMX" =>
                 C10_blocking_ok(its[i].config.input_dtype,
                                 its[i].config.register_blocking)
    /\ (returned /\ from_amx_config) =>
          C10_blocking_ok(result.input_dtype, result.register_blocking)

C10_Witness ==
    /\ returned
    /\ result.cls = "CppMicroGemmAMX"
    /\ result.input_dtype = "uint8"
    /\ result.register_blocking[3] = 64

(***************************************************************************)
(* Properties of registration and of the eligibility predicates.           *)
(***************************************************************************)
\* C11: a step that applies register_micro_gemm(configs...)(cls) fails with
\* an assertion, leaving the registry as it was, when cls is already a key or
\* configs is empty; otherwise it returns cls and the registry gains exactly
\* the key cls mapped to configs in order, the other entries unchanged.
C11_Register_Asserts_Or_Adds_One_Key ==
    [][(reg' # reg) =>
          LET before == micro_gemm_configs
              after == micro_gemm_configs'
          IN IF \/ \E i \in 1 .. Len(before) : before[i].cls = reg'.cls
                \/ Len(reg'.configs) = 0
             THEN /\ reg'.outcome = "AssertionError"
                  /\ after = before
             ELSE /\ reg'.outcome = reg'.cls
                  /\ Len(after) = Len(before) + 1
                  /\ \A i \in 1 .. Len(before) : after[i] = before[i]
                  /\ after[Len(after)].cls = reg'.cls
                  /\ after[Len(after)].configs = reg'.configs
                  /\ reg'.configs = gen.configs]_vars

\* A fifth class has been registered with two configurations.
C11_Witness ==
    /\ reg.outcome = "CppMicroGemmUser"
    /\ Len(reg.configs) = 2
    /\ Len(micro_gemm_configs) = Len(Decorations) + 1
    /\ micro_gemm_configs[Len(micro_gemm_configs)].configs = reg.configs

\* C12: once the module has loaded, no step (a create_micro_gemm call,
\* whatever it returns or raises, a get_b_layout or codegen_define call on
\* the returned variant, the end of a request) changes the registry.
C12_Registry_Read_Only_After_Load ==
    [][module_loaded => micro_gemm_configs' = micro_gemm_configs]_vars

\* A call has raised and the registry still holds the four decorations.
C12_Witness ==
    /\ called
    /\ result.kind = "AssertionError"
    /\ micro_gemm_configs = Decorations

\* C13: a CppMicroGemmAMX is returned only when alpha = 1 and k is a
\* multiple of the VNNI size, 4 for uint8 input and 2 otherwise.
C13_AMX_Needs_Alpha_1_And_VNNI_K ==
    (returned /\ result.cls = "CppMicroGemmAMX") =>
        /\ call.alpha = 1
        /\ call.k % (IF call.input_dtype = "uint8" THEN 4 ELSE 2) = 0

\* k = 2 serves the bfloat16 family, where the VNNI size is 2.
C13_Witness ==
    /\ returned
    /\ result.cls = "CppMicroGemmAMX"
    /\ call.input_dtype = "bfloat16"
    /\ call.k = 2
    /\ call.alpha = 1

C14_conditions ==
    /\ req.m <= 4
    /\ call.n % 32 = 0
    /\ avx512_fp16

\* C14: a CppFP16MicroGemm is returned only when m <= 4, n % 32 = 0 and the
\* host reports AVX512-FP16; and when these hold for a bfloat16 x int8
\* request on a host whose ISA satisfies AVX512, the returned variant is a
\* CppFP16MicroGemm.
C14_FP16_Variant_Iff_Small_M ==
    /\ (returned /\ result.cls = "CppFP16MicroGemm") => C14_conditions
    /\ (/\ called
        /\ C14_conditions
        /\ call.input_dtype = "bfloat16" /\ call.input2_dtype = "int8"
        /\ issubclass(vec_isa, "VecAVX512"))
        => (result.kind = "variant" /\ result.cls = "CppFP16MicroGemm")

\* On an AMX host, with float passed for both optional dtypes.
C14_Witness ==
    /\ returned
    /\ result.cls = "CppFP16MicroGemm"
    /\ vec_isa = "VecAMX"
    /\ call.m = 4 /\ call.n = 32
    /\ call.output_dtype = "float" /\ call.compute_dtype = "float"
    /\ call.alpha = 1 /\ call.k = 32

\* C15 as stated: a CppMicroBrgemm is returned only for a request whose
\* input dtype and output dtype are both float16, on an AMX-FP16 host.
C15_Brgemm_Only_Half_In_Half_Out ==
    (returned /\ result.cls = "CppMicroBrgemm") =>
        /\ call.input_dtype = "half"
        /\ frame.output_dtype = "half"
        /\ amx_fp16

\* C15 amended: a CppMicroBrgemm is returned only for a request whose input
\* dtype is float16 and whose output dtype is passed as float, on an
\* AMX-FP16 host.
C15_Brgemm_Only_Half_In_Float_Out ==
    (returned /\ result.cls = "CppMicroBrgemm") =>
        /\ call.input_dtype = "half"
        /\ call.output_dtype = "float"
        /\ amx_fp16

C15_Witness ==
    /\ returned
    /\ result.cls = "CppMicroBrgemm"
    /\ call.input_dtype = "half" /\ call.input2_dtype = "half"
    /\ call.output_dtype = "float"
    /\ amx_fp16

(***************************************************************************)
(* Properties of the prologue of create_micro_gemm.                        *)
(***************************************************************************)
C16_output_default == IF call.output_dtype = "None" THEN call.input_dtype ELSE call.output_dtype

C16_num_threads_default == IF call.num_threads < 0 THEN call.parallel ELSE call.num_threads

\* C16 as stated: an unspecified output_dtype defaults to input_dtype, an
\* unspecified compute_dtype defaults to input_dtype whatever output_dtype
\* was passed, a negative num_threads is replaced by the ambient thread
\* count and a non-negative one is used as given.
C16_Compute_Defaults_To_Input ==
    (called /\ ~frame.raised) =>
        /\ frame.output_dtype = C16_output_default
        /\ frame.compute_dtype =
              (IF call.compute_dtype = "None" THEN call.input_dtype
               ELSE call.compute_dtype)
        /\ frame.num_threads = C16_num_threads_default

\* C16 amended: ... an unspecified compute_dtype defaults to the output_dtype
\* (as passed, or as defaulted from input_dtype) ...; and unless the float16
\* test overrides them, the returned variant carries these dtypes.
C16_Compute_Defaults_To_Output ==
    /\ (called /\ ~frame.raised) =>
          /\ frame.output_dtype = C16_output_default
          /\ frame.compute_dtype =
                (IF call.compute_dtype = "None" THEN C16_output_default
                 ELSE call.compute_dtype)
          /\ frame.num_threads = C16_num_threads_default
    /\ (returned /\ ~C4_condition) =>
          /\ result.output_dtype = frame.output_dtype
          /\ result.compute_dtype = frame.compute_dtype

\* output_dtype = float is passed for a bfloat16 input, compute_dtype and
\* num_threads are left to their defaults, and the AMX variant computing in
\* float comes back.
C16_Witness ==
    /\ returned
    /\ call.input_dtype = "bfloat16" /\ call.input2_dtype = "bfloat16"
    /\ call.output_dtype = "float"
    /\ call.compute_dtype = "None"
    /\ call.num_threads < 0
    /\ frame.compute_dtype = "float"
    /\ frame.num_threads = call.parallel
    /\ result.cls = "CppMicroGemmAMX"
    /\ result.compute_dtype = "float"

C17_calls == {frame.calls[i] : i \in 1 .. Len(frame.calls)}

C17_raised_early ==
    /\ result.kind = "AssertionError"
    /\ frame.raised
    /\ C17_calls \cap {"pick_vec_isa", "micro_gemm_configs.items",
                       "_is_avx512_fp16_supported", "parallel_num_threads"} = {}

RECURSIVE C18_dot(_, _, _, _, _, _, _)
C18_dot(A, B, lda, ldb, m, n, K) ==
    IF K = 0 THEN 0
    ELSE C18_dot(A, B, lda, ldb, m, n, K - 1)
         + A[m * lda + (K - 1)] * B[(K - 1) * ldb + n]

\* C18: after the reference kernel has run on an M x K matrix A, a K x N
\* matrix B and an M x N matrix C with lda >= K, ldb >= N, ldc >= N, every
\* C[m][n] is alpha * sum_k A[m][k] * B[k][n], plus the old C[m][n] when
\* accum, and no element of C outside the M x N positions has changed.
C18_Reference_Kernel_Computes_GEMM ==
    kernel.ran =>
        /\ DOMAIN kernel.C = DOMAIN kernel.C_old
        /\ \A m \in 0 .. kernel.M - 1, n \in 0 .. kernel.N - 1 :
              kernel.C[m * kernel.ldc + n] =
                  (IF kernel.accum THEN kernel.C_old[m * kernel.ldc + n] ELSE 0)
                  + kernel.alpha * C18_dot(kernel.A, kernel.B, kernel.lda,
                                           kernel.ldb, m, n, kernel.K)
        /\ \A o \in DOMAIN kernel.C :
              (o % kernel.ldc >= kernel.N) => kernel.C[o] = kernel.C_old[o]

\* A 2 x 2 x 2 accumulating run with alpha = 2 and padded rows everywhere.
C18_Witness ==
    /\ kernel.ran
    /\ kernel.accum
    /\ kernel.alpha = 2
    /\ kernel.M = 2 /\ kernel.N = 2 /\ kernel.K = 2
    /\ kernel.lda = 3 /\ kernel.ldb = 3 /\ kernel.ldc = 3
    /\ kernel.C_old[4] = 5
    /\ kernel.C[4] # kernel.C_old[4]
    /\ kernel.C[5] = 7

(***************************************************************************)
(* Properties of generate_gemm_config and of get_b_layout.                 *)
(***************************************************************************)
C19_output_dtype == IF gen.output_dtype = "None" THEN gen.input_dtype ELSE gen.output_dtype

C19_list_as_stated ==
    gen.called =>
        /\ Len(gen.configs) = Len(gen.register_blockings)
        /\ \A i \in 1 .. Len(gen.configs) :
              /\ gen.configs[i].register_blocking = gen.register_blockings[i]
              /\ gen.configs[i].vec_isa_cls = gen.vec_isa_cls
              /\ gen.configs[i].extra_check = gen.extra_check
              /\ gen.configs[i].input_dtype = gen.input_dtype
              /\ gen.configs[i].input2_dtype =
                    (IF gen.input2_dtype = "None" THEN gen.input_dtype
                     ELSE gen.input2_dtype)
              /\ gen.configs[i].output_dtype = C19_output_dtype
              /\ gen.configs[i].compute_dtype =
                    (IF gen.compute_dtype = "None" THEN C19_output_dtype
                     ELSE gen.compute_dtype)

\* C19: generate_gemm_config returns one configuration per blocking tuple,
\* in the order given, all with the given ISA and extra_check and the same
\* dtypes, output_dtype defaulting to input_dtype, compute_dtype to the
\* (possibly defaulted) output_dtype and input2_dtype to input_dtype; and
\* the step that calls it leaves the registry as it was.
C19_Generate_One_Config_Per_Blocking ==
    /\ []C19_list_as_stated
    /\ [][(gen' # gen) => micro_gemm_configs' = micro_gemm_configs]_vars

\* Two blockings, every optional dtype defaulted from a bfloat16 input,
\* generated once the module's own registrations are in place.
C19_Witness ==
    /\ gen.called
    /\ module_loaded
    /\ Len(gen.register_blockings) = 2
    /\ gen.register_blockings[1] # gen.register_blockings[2]
    /\ gen.input_dtype = "bfloat16"
    /\ gen.input2_dtype = "None" /\ gen.output_dtype = "None"
    /\ gen.compute_dtype = "None"
    /\ gen.configs[2].compute_dtype = "bfloat16"
    /\ gen.configs[2].register_blocking = gen.register_blockings[2]

\* C20: get_b_layout on a returned variant is NORMAL for the reference,
\* FP32-vector and FP16-fused variants, VNNI4 for an AMX variant with uint8
\* input, VNNI2 for every other AMX variant and for the Brgemm variant, whose
\* assertion never fails.
C20_B_Layout_By_Variant ==
    (use.method = "get_b_layout") =>
        use.outcome =
            CASE result.cls \in {"CppMicroGemmRef", "CppMicroGemmFP32Vec",
                                 "CppFP16MicroGemm"} -> "NORMAL"
              [] result.cls = "CppMicroGemmAMX" /\ result.input_dtype = "uint8" -> "VNNI4"
              [] result.cls = "CppMicroGemmAMX" /\ result.input_dtype # "uint8" -> "VNNI2"
              [] result.cls = "CppMicroBrgemm" -> "VNNI2"

C20_Witness ==
    /\ use.method = "get_b_layout"
    /\ result.cls = "CppMicroBrgemm"
    /\ use.outcome = "VNNI2"

(***************************************************************************)
(* Ownership of a dtype tuple in the registry                              *)
(***************************************************************************)
C21_tuple(config) ==
    <<config.input_dtype, config.input2_dtype, config.output_dtype, config.compute_dtype>>

\* The classes that own dtype tuple t among the pairs of its whose required
\* ISA class the host class h satisfies.
C21_owners(its, h, t) ==
    {its[i].cls : i \in {j \in 1 .. Len(its) :
                            /\ issubclass(h, its[j].config.vec_isa_cls)
                            /\ C21_tuple(its[j].config) = t}}

\* Pairs with the same required ISA class and the same dtype tuple have the
\* same class and, when they are two pairs, different register blockings.
C21_one_class_per_isa_and_tuple(its) ==
    \A i, j \in 1 .. Len(its) :
        (/\ its[i].config.vec_isa_cls = its[j].config.vec_isa_cls
         /\ C21_tuple(its[i].config) = C21_tuple(its[j].config))
        => /\ its[i].cls = its[j].cls
           /\ (i # j => its[i].config.register_blocking # its[j].config.register_blocking)

C21_tuples(its) == {C21_tuple(its[i].config) : i \in 1 .. Len(its)}

\* C21 as stated: one class per (required ISA class, dtype tuple) with
\* pairwise different blockings, and on every host ISA class the eligible
\* configurations of one dtype tuple belong to one class.
C21_One_Class_Per_Tuple_On_Host ==
    (module_loaded /\ ~called) =>
        LET its == all_items
        IN /\ C21_one_class_per_isa_and_tuple(its)
           /\ \A h \in HostISAs : \A t \in C21_tuples(its) :
                  Cardinality(C21_owners(its, h, t)) <= 1

\* C21: one class per (required ISA class, dtype tuple) with pairwise
\* different blockings; on a host below AMX the eligible configurations of
\* one dtype tuple belong to one class; on an AMX host the tuples
\* (bfloat16, bfloat16, float, float), (bfloat16, int8, float, float) and
\* (half, half, float, float) are each owned by CppMicroGemmFP32Vec and by
\* one class that requires AMX, and every other tuple by one class.
C21_One_Class_Per_ISA_And_Tuple ==
    (module_loaded /\ ~called) =>
        LET its == all_items
        IN /\ C21_one_class_per_isa_and_tuple(its)
           /\ \A h \in HostISAs \ {"VecAMX"} : \A t \in C21_tuples(its) :
                  Cardinality(C21_owners(its, h, t)) <= 1
           /\ \A t \in C21_tuples(its) :
                  C21_owners(its, "VecAMX", t) =
                      CASE t = <<"bfloat16", "bfloat16", "float", "float">> ->
                               {"CppMicroGemmFP32Vec", "CppMicroGemmAMX"}
                        [] t = <<"bfloat16", "int8", "float", "float">> ->
                               {"CppMicroGemmFP32Vec", "CppMicroGemmAMX"}
                        [] t = <<"half", "half", "float", "float">> ->
                               {"CppMicroGemmFP32Vec", "CppMicroBrgemm"}
                        [] t = <<"float", "float", "float", "float">> ->
                               {"CppMicroGemmFP32Vec"}
                        [] t = <<"bfloat16", "int8", "half", "half">> ->
                               {"CppFP16MicroGemm"}
                        [] t = <<"uint8", "int8", "int32", "int32">> ->
                               {"CppMicroGemmAMX"}

C21_Witness ==
    /\ module_loaded
    /\ ~called
    /\ vec_isa = "VecAMX"
    /\ LET its == all_items
       IN /\ \E i, j \in 1 .. Len(its) :
                 /\ i # j
                 /\ its[i].cls = "CppMicroGemmAMX" /\ its[j].cls = "CppMicroGemmAMX"
                 /\ its[i].config.vec_isa_cls = its[j].config.vec_isa_cls
                 /\ C21_tuple(its[i].config) = C21_tuple(its[j].config)
          /\ Cardinality(C21_owners(its, vec_isa, <<"bfloat16", "bfloat16", "float", "float">>)) = 2

(***************************************************************************)
(* Properties of the emitted AMX tile kernel.                              *)
(***************************************************************************)
\* A tile-kernel call has executed its last step.
C22_kernel_returned == amx.running /\ amx.log # << >> /\ amx.body = << >>

\* The positions of the compute steps in the log of the current call.
C22_computes == {i \in 1 .. Len(amx.log) : amx.log[i].step.op = "compute"}

\* K of the run has a bulk part and a tail part.
C22_bulk_and_tail == amx.K >= amx.options.block_k /\ amx.K % amx.options.block_k # 0

\* C22: every compute step of every tile-kernel call of the entry function
\* executes while the tile unit holds tilecfg_rows rows and, per row, 64
\* bytes for a step over a whole K-block and tail_k_size * sizeof(input)
\* bytes for the tail step, for the tile grid of the called kernel.
C22_Compute_Under_Required_Configuration ==
    (amx.running /\ amx.log # << >>) =>
        LET e == amx.log[Len(amx.log)]
            o == amx.options
        IN (e.step.op = "compute") =>
              /\ e.tile.rows = amx.cur.tilecfg_rows
              /\ e.tile.colsb = (IF e.step.k + o.block_k <= amx.K
                                 THEN 64
                                 ELSE (amx.K - e.step.k) * itemsize(o.input_dtype))
              /\ e.tile.tile_rows = amx.cur.num_rows \div 16
              /\ e.tile.tile_cols = o.block_n \div 16

\* A tail call (fewer than 16 rows) that follows a full-size call computes
\* its K tail after a bulk part.
C22_Witness ==
    /\ amx.running
    /\ Len(amx.calls) >= 2
    /\ amx.calls[Len(amx.calls) - 1].call.tilecfg_rows = 16
    /\ amx.cur.tilecfg_rows = 1
    /\ amx.log # << >>
    /\ LET e == amx.log[Len(amx.log)]
       IN /\ e.step.op = "compute"
          /\ e.step.k = amx.options.block_k
          /\ e.tile.colsb = 4
          /\ e.tile.rows = 1

\* The position of the tail compute step in the log, 0 if there is none.
C23_tail_compute ==
    LET at == {i \in C22_computes : amx.log[i].step.k + amx.options.block_k > amx.K}
    IN IF at = {} THEN 0 ELSE CHOOSE i \in at : TRUE

\* The tile unit is configured for the tail between the last bulk compute
\* step and the tail compute step.
C23_configured_for_tail ==
    LET t == C23_tail_compute
    IN /\ t > 0
       /\ \E i \in 1 .. t - 1 :
             /\ amx.log[i].step.op = "configure"
             /\ amx.log[i].step.colsb =
                    (amx.K % amx.options.block_k) * itemsize(amx.options.input_dtype)
             /\ \A j \in C22_computes : j # t => j < i

\* C23 as stated: with bulk and tail, the tile unit is reconfigured for the
\* tail before the tail compute, and the bulk configuration (64 bytes per
\* row) is held again when the kernel returns.
C23_Tail_Reconfigures_Then_Restores ==
    (C22_kernel_returned /\ C22_bulk_and_tail) =>
        /\ C23_configured_for_tail
        /\ amx.tile.colsb = 64

\* C23: with bulk and tail, the tile unit is reconfigured for the tail
\* before the tail compute; no configure follows the tail compute, so the
\* kernel returns with the tail configuration held.
C23_Tail_Reconfigures_And_Keeps ==
    (C22_kernel_returned /\ C22_bulk_and_tail) =>
        /\ C23_configured_for_tail
        /\ \A i \in 1 .. Len(amx.log) :
              (i > C23_tail_compute) => amx.log[i].step.op # "configure"
        /\ amx.tile.colsb = (amx.K % amx.options.block_k) * itemsize(amx.options.input_dtype)
        /\ amx.tile.rows = amx.cur.tilecfg_rows

C23_Witness ==
    /\ C22_kernel_returned
    /\ C22_bulk_and_tail
    /\ amx.K = 2 * amx.options.block_k + 2
    /\ amx.options.input_dtype = "uint8"
    /\ amx.tile.colsb = 2
    /\ Len(amx.log) = 9

\* The k of the compute steps of the current call, in execution order.
C24_offsets ==
    LET IsCompute(e) == e.step.op = "compute"
        cs == SelectSeq(amx.log, IsCompute)
    IN [i \in 1 .. Len(cs) |-> cs[i].step.k]

\* The compute step in log entry e consumes K index x: a step consumes as
\* many elements from its offset as one row of the configured tile holds.
C24_consumes(e, x) ==
    /\ e.step.k <= x
    /\ x < e.step.k + e.tile.colsb \div itemsize(amx.options.input_dtype)

\* C24: a tile-kernel call computes at offsets 0, block_k, ... for the
\* floor(K / block_k) whole K-blocks and once more at floor(K / block_k) *
\* block_k exactly if K % block_k # 0; every K index is consumed by exactly
\* one step; with bulk and tail the accumulators are stored right before the
\* reconfiguration and loaded right after it; and C is stored exactly once
\* after the last compute step, as the last step.
C24_K_Split_Into_Bulk_And_Tail ==
    C22_kernel_returned =>
        LET block_k == amx.options.block_k
            q == amx.K \div block_k
            ks == C24_offsets
            n == Len(amx.log)
            cs == C22_computes
            last == IF cs = {} THEN 0 ELSE CHOOSE i \in cs : \A j \in cs : j <= i
        IN /\ Len(ks) = q + (IF amx.K % block_k # 0 THEN 1 ELSE 0)
           /\ \A i \in 1 .. Len(ks) : ks[i] = (i - 1) * block_k
           /\ \A x \in 0 .. amx.K - 1 :
                 Cardinality({i \in cs : C24_consumes(amx.log[i], x)}) = 1
           /\ C22_bulk_and_tail =>
                 /\ amx.log[last - 3].step.op = "store_c"
                 /\ amx.log[last - 2].step.op = "configure"
                 /\ amx.log[last - 1].step.op = "load_c"
                 /\ last - 4 \in cs
           /\ amx.log[n].step.op = "store_c"
           /\ \A i \in 1 .. n : (i > last /\ amx.log[i].step.op = "store_c") => i = n
           /\ last \in {0, n - 1}

C24_Witness ==
    /\ C22_kernel_returned
    /\ ~amx.accum
    /\ amx.options.block_k = 32
    /\ amx.K = 66
    /\ C24_offsets = <<0, 32, 64>>
    /\ Len(amx.log) = 9
    /\ amx.log[2].step.op = "zero_c"
    /\ amx.log[7].step.op = "load_c"

(***************************************************************************)
(* Properties of the emitted AMX entry function.                           *)
(***************************************************************************)
\* The entry function has returned without a failed assertion.
C26_entry_returned ==
    amx.running /\ ~amx.raised /\ amx.entry = << >> /\ amx.body = << >>

\* C26: with the dequantized slab of B cached, every tile-kernel call reads
\* dequantized_B_buf while it holds the slab of the call's own N-block, that
\* slab has been dequantized exactly once, and on return the slabs
\* dequantized are those of the N-blocks 0, block_n, ..., once each, in
\* this order.
C26_Slab_Dequantized_Once_Per_N_Block ==
    (amx.running /\ amx.options.use_cached_dequantized_B) =>
        /\ \A i \in 1 .. Len(amx.calls) :
              /\ amx.calls[i].call.B = "dequantized_B_buf"
              /\ amx.calls[i].slab = amx.calls[i].call.n
              /\ Cardinality({j \in 1 .. Len(amx.loads) :
                                 amx.loads[j] = amx.calls[i].call.n}) = 1
        /\ C26_entry_returned =>
              amx.loads = [j \in 1 .. amx.N \div amx.options.block_n |->
                              (j - 1) * amx.options.block_n]

C26_Witness ==
    /\ C26_entry_returned
    /\ amx.options.use_cached_dequantized_B
    /\ amx.options.block_n = 16
    /\ amx.N = 32
    /\ amx.M = 17
    /\ Len(amx.calls) = 4
    /\ amx.calls[3].slab = 16
    /\ amx.loads = <<0, 16>>

\* The positions in amx.calls of the calls of the N-block at n whose first
\* row lies in the M-block at m.
C27_calls_of(n, m) ==
    {i \in 1 .. Len(amx.calls) :
        /\ amx.calls[i].call.n = n
        /\ amx.calls[i].call.m >= m
        /\ amx.calls[i].call.m < m + amx.options.block_m}

\* C27: on return, within each N-block every row of [0, M) is covered by
\* exactly one tile-kernel call and no call covers a row from M on; an
\* M-block with rows rows gets a full-size call on the largest multiple of
\* 16 not above rows, if that is positive, with tilecfg_rows 16, and then, if
\* rows is not a multiple of 16, one tail call of kernel_16 that starts at the
\* first uncovered row with tilecfg_rows = rows % 16; it gets no other call.
C27_Rows_Covered_Once ==
    C26_entry_returned =>
        LET o == amx.options
            NBlocks == {nb * o.block_n : nb \in 0 .. amx.N \div o.block_n - 1}
            MBlocks == {m \in 0 .. amx.M - 1 : m % o.block_m = 0}
        IN /\ \A i \in 1 .. Len(amx.calls) : amx.calls[i].call.n \in NBlocks
           /\ \A n \in NBlocks :
                 /\ \A row \in 0 .. amx.M - 1 :
                       Cardinality({i \in 1 .. Len(amx.calls) :
                                       /\ amx.calls[i].call.n = n
                                       /\ row \in amx_kernel_rows(amx.calls[i].call)}) = 1
                 /\ \A i \in 1 .. Len(amx.calls) :
                       \A row \in amx_kernel_rows(amx.calls[i].call) : row < amx.M
                 /\ \A m \in MBlocks :
                       LET rows == IF amx.M - m < o.block_m THEN amx.M - m ELSE o.block_m
                           full == 16 * (rows \div 16)
                           at == C27_calls_of(n, m)
                           FullCall(i) ==
                               /\ amx.calls[i].call.m = m
                               /\ amx.calls[i].call.num_rows = full
                               /\ amx.calls[i].call.tilecfg_rows = 16
                           TailCall(i) ==
                               /\ amx.calls[i].call.m = m + full
                               /\ amx.calls[i].call.num_rows = 16
                               /\ amx.calls[i].call.tilecfg_rows = rows % 16
                               /\ amx.calls[i].call.tilecfg_rows \in 1 .. 15
                       IN /\ Cardinality(at) =
                                 (IF full > 0 THEN 1 ELSE 0) + (IF rows % 16 # 0 THEN 1 ELSE 0)
                          /\ (full > 0) => \E i \in at : FullCall(i)
                          /\ (rows % 16 # 0) => \E i \in at : TailCall(i)
                          /\ \A i, j \in at : (FullCall(i) /\ TailCall(j)) => j = i + 1

C27_Witness ==
    /\ C26_entry_returned
    /\ amx.options.block_m = 48
    /\ amx.M = 81
    /\ amx.N = 2 * amx.options.block_n
    /\ Len(amx.calls) = 6
    /\ amx.calls[2].call.num_rows = 32
    /\ amx.calls[3].call.m = 80
    /\ amx.calls[3].call.tilecfg_rows = 1

(***************************************************************************)
(* Properties of load_dequantized_B.                                       *)
(***************************************************************************)
\* C25 as stated: each iteration of load_dequantized_B reads exactly the
\* block_n columns [base_idx, base_idx + block_n) of its row of B, no vector
\* load or store covers a column from block_n on, and every write stays
\* below K * block_n, so no access leaves B or the buffer.
C25_Dequantize_Stays_In_Slab ==
    (dequant.rows > 0) =>
        /\ \A l \in dequant.loads : l.from >= 0 /\ l.to <= dequant.block_n
        /\ \A c \in 0 .. dequant.block_n - 1 :
              \E l \in dequant.loads : l.from <= c /\ c < l.to
        /\ \A s \in dequant.stores :
              /\ s.from >= (dequant.rows - 1) * dequant.block_n
              /\ s.to <= dequant.rows * dequant.block_n
              /\ s.to <= dequant.K * dequant.block_n
        /\ ~dequant.out_of_bounds

\* With block_n = 16 and K = 1 the one full-width vector operation of the
\* row reads 32 columns and writes 32 elements of the 16-element buffer.
C25_Witness ==
    /\ dequant.block_n = 16
    /\ dequant.K = 1
    /\ dequant.rows = 1
    /\ [row |-> 0, from |-> 0, to |-> 32] \in dequant.loads
    /\ [from |-> 0, to |-> 32] \in dequant.stores
    /\ dequant.out_of_bounds

(***************************************************************************)
(* Properties of the emitted vector entry function.                        *)
(***************************************************************************)
C28_entry_returned == vec.running /\ vec.raised = "None" /\ vec.entry = << >>

\* C28: the default branch "Unsupported block_m" is never reached; and on
\* return, for N a multiple of block_n, every pair of a row of [0, M) and an
\* N-block is covered by exactly one inner kernel call, no call covers a row
\* from M on, every call on a whole M-block instantiates the kernel for
\* block_m rows and the calls on a partial last M-block of r rows
\* instantiate it for exactly r rows.
C28_Each_Row_And_N_Block_Computed_Once ==
    vec.running =>
        /\ vec.raised # "Unsupported block_m"
        /\ C28_entry_returned =>
              LET o == vec.options
                  NBlocks == {nb * o.block_n : nb \in 0 .. vec.N \div o.block_n - 1}
                  calls == vec.calls
              IN /\ \A row \in 0 .. vec.M - 1, n \in NBlocks :
                        Cardinality({i \in 1 .. Len(calls) :
                                        /\ calls[i].n = n
                                        /\ calls[i].m <= row
                                        /\ row < calls[i].m + calls[i].BLOCK_M}) = 1
                 /\ \A i \in 1 .. Len(calls) :
                        /\ calls[i].n \in NBlocks
                        /\ calls[i].m % o.block_m = 0
                        /\ calls[i].m + calls[i].BLOCK_M <= vec.M
                        /\ calls[i].BLOCK_M =
                               (IF vec.M - calls[i].m >= o.block_m
                                THEN o.block_m
                                ELSE vec.M % o.block_m)
                 /\ Len(calls) = Cardinality(NBlocks) * ((vec.M + o.block_m - 1) \div o.block_m)

\* A run of the FP16 variant with one whole M-block and a last M-block of
\* one row, over two N-blocks.
C28_Witness ==
    /\ C28_entry_returned
    /\ vec.options.cls = "CppFP16MicroGemm"
    /\ vec.options.block_m = 8
    /\ vec.M = 9
    /\ vec.N = 2 * vec.options.block_n
    /\ Len(vec.calls) = 4
    /\ vec.calls[1].BLOCK_M = 8
    /\ vec.calls[4].BLOCK_M = 1
    /\ vec.calls[4].m = 8

(***************************************************************************)
(* Properties of CppMicroGemmAMX.codegen_define.                           *)
(***************************************************************************)
\* The register blocking of AMX instance v breaks one of the four conditions.
C29_bad_blocking(v) ==
    \/ v.register_blocking[1] % 16 # 0
    \/ v.register_blocking[2] % 16 # 0
    \/ v.input_dtype = "uint8" /\ v.register_blocking[3] # 64
    \/ v.input_dtype # "uint8" /\ v.register_blocking[3] # 32

\* C29: codegen_define on a CppMicroGemmAMX instance ends in an assertion
\* error, without text, when block_m % 16 # 0, block_n % 16 # 0, the input is
\* uint8 and block_k # 64, or the input is not uint8 and block_k # 32; on an
\* AMX instance returned by create_micro_gemm none of the four holds and
\* codegen_define produces its text.
C29_AMX_Codegen_Asserts ==
    (use.method = "codegen_define" /\ result.cls = "CppMicroGemmAMX") =>
        /\ C29_bad_blocking(result) => use.outcome = "AssertionError"
        /\ call.name \in Names =>
              /\ ~C29_bad_blocking(result)
              /\ use.outcome = "text"

\* A directly constructed uint8 instance with block_k = 32 fails.
C29_Witness ==
    /\ use.method = "codegen_define"
    /\ result.cls = "CppMicroGemmAMX"
    /\ call.name = "direct"
    /\ result.input_dtype = "uint8"
    /\ result.register_blocking = <<32, 16, 32>>
    /\ use.outcome = "AssertionError"

(***************************************************************************)
(* Properties of the calls of extra_check in the selection loop.           *)
(***************************************************************************)
\* C30: every configuration whose extra_check the selection loop calls has
\* passed the ISA check and equals the request in all four dtypes; the
\* assertion of check_brgemm_extra holds at each of its calls, and
\* create_micro_gemm does not end in an assertion error.
C30_Extra_Check_After_ISA_And_Dtypes ==
    called =>
        LET r == req
            calls == extra_check_calls(all_items, r)
        IN /\ \A i \in 1 .. Len(calls) :
                 LET config == calls[i].config
                 IN /\ isa_rank(vec_isa) >= isa_rank(config.vec_isa_cls)
                    /\ config.input_dtype = r.input_dtype
                    /\ config.input2_dtype = r.input2_dtype
                    /\ config.output_dtype = r.output_dtype
                    /\ config.compute_dtype = r.compute_dtype
                    /\ (config.extra_check = "check_brgemm_extra") =>
                           (config.input_dtype = "half" /\ config.output_dtype = "float")
           /\ result.kind # "AssertionError"

\* A half-precision request on an AMX-FP16 host: check_brgemm_extra is
\* called for the three Brgemm configurations and the Brgemm variant returned.
C30_Witness ==
    /\ called
    /\ vec_isa = "VecAMX"
    /\ amx_fp16
    /\ call.input_dtype = "half"
    /\ result.kind = "variant"
    /\ result.cls = "CppMicroBrgemm"
    /\ LET calls == extra_check_calls(all_items, req)
       IN /\ Len(calls) = 3
          /\ \A i \in 1 .. 3 : calls[i].config.extra_check = "check_brgemm_extra"

====
